---- MODULE Spec2Model ----
(***************************************************************************)
(* State-machine model of the persistence layer of the trailer service    *)
(* (src/db.ts): the bounded submission queue, the moderation transaction  *)
(* and the admin directory, as they run on the single shared client.      *)
(*                                                                         *)
(* Every exported function of db.ts is an async function whose awaited    *)
(* statements go through the one module-level client.  A call is modelled *)
(* as a process; each action is one statement executed by the store       *)
(* together with the synchronous code that follows it up to the next      *)
(* await.  Calls of different HTTP requests interleave at the awaits.      *)
(*                                                                         *)
(* The store is the relational store of spec section 6: statements are    *)
(* atomic, the session of the client has at most one open transaction,    *)
(* BEGIN inside an open transaction and COMMIT/ROLLBACK outside one are   *)
(* no-ops, ROLLBACK restores the tables as they were at BEGIN, a failed   *)
(* statement has no effect, and a primary-key conflict is an error.       *)
(*                                                                         *)
(* The connection and the heartbeat are the module-level client and       *)
(* heartbeatInterval of db.ts: initDb creates and connects the client,    *)
(* creates the tables and starts the timer, heartbeat() runs on every     *)
(* tick, closeDb clears the timer and ends the client.  The server        *)
(* process is the top level of src/main.ts: one awaited initDb, then the  *)
(* signal listeners that call closeDb and exit.  A connect succeeds or    *)
(* fails at the will of the environment.  Every initDb assigns a new      *)
(* Client object to the module-level variable: an operation that is in    *)
(* flight then is answered on the object it was sent on, and what the     *)
(* caller sends next goes to the object the variable holds by then.       *)
(***************************************************************************)
EXTENDS Integers, FiniteSets, Sequences, TLC

(* ------------------------------ bounds -------------------------------- *)
MaxCalls == 2
MaxTicks == 1
MaxFaults == 2
MaxOffset == 1
BacklogSlack == 1
MaxBeats == 2

Procs == {1, 2}
ImdbIds == {"tt1", "tt2"}
Urls == {"u1", "u2"}
Usernames == {"root", "mod", "eve"}
NewUsernames == {"root", "mod"}
Passwords == {"pw1", "pw2"}
Reviewers == {"root", "mod"}

(* ------------------------- program constants -------------------------- *)
PendingLimit == 400
RandomRange == 1000
BootstrapAdmin == "root"
BootstrapPassword == "pw1"
HeartbeatKey == 1

VARIABLES
  db,       \* the tables: [submissions, trailers, admins], each a set of rows
  backlog,  \* pending submissions of earlier runs, older than every id below
  inTxn,    \* the client's session has an open transaction
  snap,     \* the tables as they were at the BEGIN of the open transaction
  now,      \* the clock read by Date.now() and CURRENT_TIMESTAMP
  pc,       \* per call: the statement it awaits next
  op,       \* per call: the exported function that is running
  arg,      \* per call: its arguments
  loc,      \* per call: its local variables
  res,      \* per call: what it returned or threw
  alone,    \* per call: no other call has overlapped it, no transaction was left open
  pre,      \* per call that runs alone: the tables when it was invoked
  lastSubmit, \* the submission a submitEntry call returned, nothing invoked since
  calls,    \* calls started so far
  faults,   \* statements the store has failed so far
  client,   \* the module-level client: undefined, created, connected or ended
  heartbeatInterval, \* the module-level timer id, 0 while undefined
  timers,   \* the ids of the interval timers that are active
  hb,       \* the heartbeat() invocations in flight, counted per awaited statement,
            \* and how the last one that ended did
  proc,     \* the server process: running, exited or crashed
  tables,   \* the tables that exist in the store
  issued,   \* the usernames of the admin cookies that /admin/login has set
  old       \* the Client objects initDb has replaced that still have an
            \* operation in flight: state, calls and heartbeat operations

\* the connection, the timer, the process and the cookies it has handed out
life == <<client, heartbeatInterval, timers, hb, proc, tables, issued, old>>

vars == <<db, backlog, inTxn, snap, now, pc, op, arg, loc, res, pre, alone,
          lastSubmit, calls, faults, life>>

NoDb == [submissions |-> {}, trailers |-> {}, admins |-> {}, system_heartbeat |-> {}]
NoArg == [imdbId |-> "", acfunUrl |-> "", submissionId |-> 0, approve |-> FALSE,
          reviewer |-> "", actor |-> "", newUsername |-> "", newPassword |-> "",
          username |-> "", password |-> "", signal |-> "",
          scheme |-> "", cookie |-> <<>>, route |-> ""]
NoSubmit == [id |-> 0, imdbId |-> "", acfunUrl |-> ""]
NoLoc == [pendingCount |-> -1, id |-> 0, rows |-> -1, imdb_id |-> "", acfun_url |-> "",
          error |-> "", role |-> "", hash |-> <<>>, after |-> NoSubmit, step |-> 0,
          sent |-> <<>>, thrown |-> "", row |-> <<>>]
NoRes == [status |-> "none", id |-> 0, valid |-> FALSE, role |-> "undefined",
          username |-> "undefined", rows |-> <<>>]

\* no heartbeat() invocation awaits its UPDATE or its reconnect, none has ended
NoBeats == [update |-> 0, reconnect |-> 0, last |-> "none"]

\* the tables of the four CREATE TABLE IF NOT EXISTS statements, in their order
SchemaTableSeq == <<"submissions", "trailers", "admins", "system_heartbeat">>
SchemaTables == {SchemaTableSeq[i] : i \in DOMAIN SchemaTableSeq}

Min(a, b) == IF a < b THEN a ELSE b


(* ----------------------------- pure code ------------------------------ *)

\* hashPassword: the hex SHA-256 digest of the password, no salt.
hashPassword(password) == <<"sha256", password>>

verifyPassword(password, hash) == hashPassword(password) = hash

PendingRows(d) == {r \in d.submissions : r.status = "pending"}

\* SELECT COUNT(*) FROM submissions WHERE status = 'pending'
getPendingCount(d) == backlog + Cardinality(PendingRows(d))

\* mutant: the check lets the 401st submission through
AtCapacity_Off(pendingCount) == pendingCount > PendingLimit

\* the capacity check of submitEntry
AtCapacity(pendingCount) == pendingCount >= PendingLimit

\* SELECT acfun_url FROM trailers WHERE imdb_id = $1
getAcfunUrl(d, imdbId) ==
  IF \E t \in d.trailers : t.imdb_id = imdbId
    THEN (CHOOSE t \in d.trailers : t.imdb_id = imdbId).acfun_url
    ELSE "null"

\* mutant: the INSERT counts again and adds no row to a full queue
InsertSubmission_Capped(d, id, imdbId, acfunUrl) ==
  IF getPendingCount(d) >= PendingLimit
    THEN d
    ELSE [d EXCEPT !.submissions = @ \cup
            {[id |-> id, imdb_id |-> imdbId, acfun_url |-> acfunUrl,
              submitted_at |-> now, status |-> "pending"]}]

\* INSERT INTO submissions (id, imdb_id, acfun_url): status and submitted_at default
InsertSubmission(d, id, imdbId, acfunUrl) ==
  [d EXCEPT !.submissions = @ \cup
     {[id |-> id, imdb_id |-> imdbId, acfun_url |-> acfunUrl,
       submitted_at |-> now, status |-> "pending"]}]

\* mutant: submissions without its primary key
IdTaken_Never(d, id) == FALSE

\* id BIGINT PRIMARY KEY: an INSERT of an id that has a row is rejected
IdTaken(d, id) == \E r \in d.submissions : r.id = id

\* mutant: every error of the first INSERT is taken for a key conflict
IsKeyConflict_AnyError(error) == TRUE

\* error.message.includes("primary key") || error.message.includes("exists already"):
\* the test the store's duplicate-key message passes and its other errors do not
IsKeyConflict(error) == error = "conflict"

\* mutant: the pre-check without its status = 'pending' condition
SelectPending_AnyStatus(d, id) == {r \in d.submissions : r.id = id}

\* SELECT imdb_id, acfun_url FROM submissions WHERE id = $1 AND status = 'pending'
SelectPending(d, id) == {r \in d.submissions : r.id = id /\ r.status = "pending"}

\* mutant: the UPDATE without its WHERE clause
UpdateStatus_AllRows(d, id, status) ==
  [d EXCEPT !.submissions = {[r EXCEPT !.status = status] : r \in @}]

\* mutant: the UPDATE repeats the status = 'pending' condition of the pre-check
UpdateStatus_IfPending(d, id, status) ==
  [d EXCEPT !.submissions =
     {IF r.id = id /\ r.status = "pending" THEN [r EXCEPT !.status = status] ELSE r : r \in @}]

\* UPDATE submissions SET status = $1 WHERE id = $2
UpdateStatus(d, id, status) ==
  [d EXCEPT !.submissions =
     {IF r.id = id THEN [r EXCEPT !.status = status] ELSE r : r \in @}]

\* mutant: ON CONFLICT (imdb_id) DO NOTHING
UpsertTrailer_KeepFirst(d, imdbId, acfunUrl, reviewer) ==
  IF \E t \in d.trailers : t.imdb_id = imdbId
    THEN d
    ELSE [d EXCEPT !.trailers = @ \cup
            {[imdb_id |-> imdbId, acfun_url |-> acfunUrl,
              approved_at |-> now, reviewer |-> reviewer]}]

\* INSERT INTO trailers ... ON CONFLICT (imdb_id) DO UPDATE SET ...
UpsertTrailer(d, imdbId, acfunUrl, reviewer) ==
  [d EXCEPT !.trailers = {t \in @ : t.imdb_id # imdbId} \cup
     {[imdb_id |-> imdbId, acfun_url |-> acfunUrl,
       approved_at |-> now, reviewer |-> reviewer]}]

\* SELECT role FROM admins WHERE username = $1: the role of the row, "none" for no row
SelectRole(d, username) ==
  IF \E a \in d.admins : a.username = username
    THEN (CHOOSE a \in d.admins : a.username = username).role
    ELSE "none"

\* mutant: the check accepts any existing admin
IsSuper_AnyAdmin(role) == role # "none"

\* the role check of addSecondaryAdmin: rows.length === 0 || rows[0].role !== 'super' throws
IsSuper(role) == role # "none" /\ role = "super"

\* mutant: the existence check finds no row
AdminExists_Never(d, username) == FALSE

\* SELECT 1 FROM admins WHERE username = $1 returns a row
AdminExists(d, username) == \E a \in d.admins : a.username = username

\* mutant: admins without its primary key
UsernameTaken_Never(d, username) == FALSE

\* username TEXT PRIMARY KEY: an INSERT of a username that has a row is rejected
UsernameTaken(d, username) == \E a \in d.admins : a.username = username

\* mutant: the new administrator is inserted with role 'super'
InsertSecondary_AsSuper(d, username, hash) ==
  [d EXCEPT !.admins = @ \cup
     {[username |-> username, password_hash |-> hash,
       role |-> "super", created_at |-> now]}]

\* INSERT INTO admins (username, password_hash, role) VALUES ($1, $2, 'secondary')
InsertSecondary(d, username, hash) ==
  [d EXCEPT !.admins = @ \cup
     {[username |-> username, password_hash |-> hash,
       role |-> "secondary", created_at |-> now]}]

\* if (superAdmin && superPwd): an unset or empty variable skips the bootstrap
BootstrapConfigured(superAdmin, superPwd) == superAdmin # "" /\ superPwd # ""

\* mutant: the bootstrap inserts without looking at the existence check
NeedsBootstrap_Always(rows) == TRUE

\* hasAdmin.rows.length === 0
NeedsBootstrap(rows) == rows = 0

\* INSERT INTO admins (username, password_hash, role) VALUES ($1, $2, 'super')
InsertSuper(d, username, hash) ==
  [d EXCEPT !.admins = @ \cup
     {[username |-> username, password_hash |-> hash,
       role |-> "super", created_at |-> now]}]

\* SELECT id, imdb_id, acfun_url, submitted_at: the columns of a returned row
PendingColumns(r) ==
  [id |-> r.id, imdb_id |-> r.imdb_id, acfun_url |-> r.acfun_url,
   submitted_at |-> r.submitted_at]

\* mutant: ORDER BY submitted_at DESC
Before_Desc(a, b) == a.submitted_at >= b.submitted_at

\* ORDER BY submitted_at ASC: a may come ahead of b
Before(a, b) == a.submitted_at <= b.submitted_at

\* the orders in which the store may return the rows: the next row is one that
\* may come ahead of all that are left, rows of equal submitted_at in any order
RECURSIVE OrderBy(_)
OrderBy(rows) ==
  IF rows = {}
    THEN {<<>>}
    ELSE UNION {{<<r>> \o rest : rest \in OrderBy(rows \ {r})} :
                  r \in {x \in rows : \A y \in rows : Before(x, y)}}

\* SELECT ... FROM submissions WHERE status = 'pending' ORDER BY submitted_at ASC
getPendingSubmissions(d) == OrderBy({PendingColumns(r) : r \in PendingRows(d)})

\* SELECT username, password_hash, role FROM admins WHERE username = $1
SelectAdmin(d, username) ==
  {[username |-> a.username, password_hash |-> a.password_hash, role |-> a.role] :
     a \in {b \in d.admins : b.username = username}}

\* a property the object does not have reads as undefined
Prop(obj, name) == IF name \in DOMAIN obj THEN obj[name] ELSE "undefined"

\* mutant: the role of the row is returned whatever the comparison says
VerifiedRole_Always(row, valid) == row.role

\* role: valid ? row.rows[0].role : undefined -- indexing undefined throws a TypeError
VerifiedRole(row, valid) ==
  IF valid
    THEN IF Prop(row, "rows") = "undefined" THEN "TypeError" ELSE Prop(row, "rows")[1].role
    ELSE "undefined"

\* username: valid ? row.username : undefined
VerifiedUsername(row, valid) == IF valid THEN Prop(row, "username") ELSE "undefined"

(* ------------------------------- state -------------------------------- *)

Active(p) == pc[p] # "idle"

\* Two submissions of an earlier run that are still pending.
SeedSubmissions ==
  {[id |-> 1, imdb_id |-> "tt1", acfun_url |-> "u1", submitted_at |-> 1, status |-> "pending"],
   [id |-> 2, imdb_id |-> "tt1", acfun_url |-> "u2", submitted_at |-> 2, status |-> "pending"]}

SeedCount == Cardinality(SeedSubmissions)

\* The store after initDb has bootstrapped the super admin, holding the pending
\* submissions of earlier runs: the two above and `backlog` older ones.
SeedDb ==
  [submissions |-> SeedSubmissions,
   trailers |-> {},
   admins |-> {[username |-> BootstrapAdmin,
                password_hash |-> hashPassword(BootstrapPassword),
                role |-> "super", created_at |-> 0]},
   system_heartbeat |-> {[id |-> HeartbeatKey, last_heartbeat |-> 0]}]

Init ==
  /\ db = SeedDb
  /\ client = "connected"
  /\ heartbeatInterval = 1
  /\ timers = {1}
  /\ hb = NoBeats
  /\ proc = "running"
  /\ tables = SchemaTables
  /\ issued = {}
  /\ old = <<>>
  /\ backlog \in {0} \cup ((PendingLimit - SeedCount - BacklogSlack) .. (PendingLimit - SeedCount))
  /\ inTxn = FALSE
  /\ snap = NoDb
  /\ now = SeedCount + 1
  /\ pc = [p \in Procs |-> "idle"]
  /\ op = [p \in Procs |-> "none"]
  /\ arg = [p \in Procs |-> NoArg]
  /\ loc = [p \in Procs |-> NoLoc]
  /\ res = [p \in Procs |-> NoRes]
  /\ pre = [p \in Procs |-> NoDb]
  /\ alone = [p \in Procs |-> FALSE]
  /\ lastSubmit = NoSubmit
  /\ calls = 0
  /\ faults = 0

\* A function of db.ts starts to run.  Lower-numbered slots are taken first.
Enter(p, o, a, first) ==
  /\ proc = "running"
  /\ pc[p] = "idle"
  /\ \A q \in Procs : q < p => Active(q)
  /\ op' = [op EXCEPT ![p] = o]
  /\ arg' = [arg EXCEPT ![p] = a]
  /\ pc' = [pc EXCEPT ![p] = first]
  /\ loc' = [loc EXCEPT ![p] = [NoLoc EXCEPT !.after = lastSubmit]]
  /\ lastSubmit' = NoSubmit
  /\ res' = [res EXCEPT ![p] = NoRes]
  /\ alone' = [q \in Procs |-> q = p /\ ~inTxn /\ \A r \in Procs \ {p} : ~Active(r)]
  /\ pre' = [q \in Procs |-> IF alone'[q] THEN db ELSE NoDb]
  /\ UNCHANGED <<db, backlog, inTxn, snap, now, faults>>

\* An exported function is invoked; MaxCalls bounds the invocations.
Call(p, o, a, first) ==
  /\ calls < MaxCalls
  /\ calls' = calls + 1
  /\ Enter(p, o, a, first)

\* A request handler invokes a function that leaves the connection and the timer alone.
Invoke(p, o, a, first) == Call(p, o, a, first) /\ UNCHANGED life

\* The call returns or throws: its promise is settled.
Finish(p, status, id) ==
  /\ pc' = [pc EXCEPT ![p] = "done"]
  /\ res' = [res EXCEPT ![p] = [NoRes EXCEPT !.status = status, !.id = id]]

Goto(p, next) ==
  /\ pc' = [pc EXCEPT ![p] = next]
  /\ UNCHANGED res

\* The awaiting request handler resumes with the result and answers the request.
Return(p) ==
  /\ proc = "running"
  /\ pc[p] = "done"
  /\ pc' = [pc EXCEPT ![p] = "idle"]
  /\ op' = [op EXCEPT ![p] = "none"]
  /\ arg' = [arg EXCEPT ![p] = NoArg]
  /\ loc' = [loc EXCEPT ![p] = NoLoc]
  /\ res' = [res EXCEPT ![p] = NoRes]
  /\ pre' = [pre EXCEPT ![p] = NoDb]
  /\ alone' = [alone EXCEPT ![p] = FALSE]
  /\ lastSubmit' = IF op[p] = "submitEntry" /\ res[p].status = "ok" /\ alone[p]
                     THEN [id |-> res[p].id, imdbId |-> arg[p].imdbId,
                           acfunUrl |-> arg[p].acfunUrl]
                     ELSE lastSubmit
  /\ UNCHANGED <<db, backlog, inTxn, snap, now, calls, faults, life>>

\* The store fails the statement: nothing is written.
StatementFails ==
  /\ faults < MaxFaults
  /\ faults' = faults + 1
  /\ UNCHANGED <<db, inTxn, snap>>

Tick ==
  /\ now < SeedCount + 1 + MaxTicks
  /\ now' = now + 1
  /\ UNCHANGED <<db, backlog, inTxn, snap, pc, op, arg, loc, res, pre, alone, lastSubmit,
                 calls, faults, life>>

(* ---------------------------- submitEntry ----------------------------- *)

StartSubmit(p, imdbId, acfunUrl) ==
  Invoke(p, "submitEntry",
         [NoArg EXCEPT !.imdbId = imdbId, !.acfunUrl = acfunUrl], "s_count")

\* await getPendingCount(), the capacity check, and id = Date.now()
SubmitCount(p) ==
  /\ pc[p] = "s_count"
  /\ \/ /\ StatementFails
        /\ Finish(p, "StoreError", 0)
        /\ UNCHANGED loc
     \/ /\ loc' = [loc EXCEPT ![p].pendingCount = getPendingCount(db),
                              ![p].id = IF AtCapacity(getPendingCount(db)) THEN 0 ELSE now]
        /\ IF AtCapacity(getPendingCount(db))
             THEN Finish(p, "CapacityExceeded", 0)
             ELSE Goto(p, "s_insert")
        /\ UNCHANGED <<db, inTxn, snap, faults>>
  /\ UNCHANGED <<backlog, now, op, arg, pre, alone, lastSubmit, calls, life>>

\* the catch block of the first INSERT: on a key conflict
\* newId = Date.now() + Math.floor(Math.random() * 1000), any other error is rethrown
SubmitCaught(p, error) ==
  IF IsKeyConflict(error)
    THEN /\ \E off \in 0 .. Min(MaxOffset, RandomRange - 1) :
              loc' = [loc EXCEPT ![p].id = now + off, ![p].error = error]
         /\ Goto(p, "s_retry")
    ELSE /\ loc' = [loc EXCEPT ![p].error = error]
         /\ Finish(p, "SubmissionFailed", 0)

\* the first INSERT
SubmitInsert(p) ==
  /\ pc[p] = "s_insert"
  /\ \/ /\ StatementFails
        /\ SubmitCaught(p, "other")
     \/ /\ IdTaken(db, loc[p].id)
        /\ SubmitCaught(p, "conflict")
        /\ UNCHANGED <<db, inTxn, snap, faults>>
     \/ /\ ~IdTaken(db, loc[p].id)
        /\ db' = InsertSubmission(db, loc[p].id, arg[p].imdbId, arg[p].acfunUrl)
        /\ Finish(p, "ok", loc[p].id)
        /\ UNCHANGED <<loc, inTxn, snap, faults>>
  /\ UNCHANGED <<backlog, now, op, arg, pre, alone, lastSubmit, calls, life>>

\* the one retry with the regenerated id
SubmitRetry(p) ==
  /\ pc[p] = "s_retry"
  /\ \/ /\ StatementFails
        /\ Finish(p, "RetryFailed", 0)
        /\ UNCHANGED loc
     \/ /\ IdTaken(db, loc[p].id)
        /\ Finish(p, "RetryFailed", 0)
        /\ UNCHANGED <<db, loc, inTxn, snap, faults>>
     \/ /\ ~IdTaken(db, loc[p].id)
        /\ db' = InsertSubmission(db, loc[p].id, arg[p].imdbId, arg[p].acfunUrl)
        /\ Finish(p, "ok", loc[p].id)
        /\ UNCHANGED <<loc, inTxn, snap, faults>>
  /\ UNCHANGED <<backlog, now, op, arg, pre, alone, lastSubmit, calls, life>>

(* -------------------------- reviewSubmission -------------------------- *)

StartReview(p, submissionId, approve, reviewer) ==
  Invoke(p, "reviewSubmission",
         [NoArg EXCEPT !.submissionId = submissionId, !.approve = approve,
                       !.reviewer = reviewer], "r_select")

\* the pre-check SELECT and the not-found throw
ReviewSelect(p) ==
  /\ pc[p] = "r_select"
  /\ \/ /\ StatementFails
        /\ Finish(p, "StoreError", 0)
        /\ UNCHANGED loc
     \/ /\ SelectPending(db, arg[p].submissionId) = {}
        /\ loc' = [loc EXCEPT ![p].rows = 0]
        /\ Finish(p, "NotFound", 0)
        /\ UNCHANGED <<db, inTxn, snap, faults>>
     \/ /\ \E row \in SelectPending(db, arg[p].submissionId) :
             loc' = [loc EXCEPT ![p].rows = Cardinality(SelectPending(db, arg[p].submissionId)),
                                ![p].imdb_id = row.imdb_id,
                                ![p].acfun_url = row.acfun_url]
        /\ Goto(p, "r_begin")
        /\ UNCHANGED <<db, inTxn, snap, faults>>
  /\ UNCHANGED <<backlog, now, op, arg, pre, alone, lastSubmit, calls, life>>

\* the call sends a statement of its transaction: loc.sent keeps them in order
Sent(p, statement) == [loc EXCEPT ![p].sent = Append(@, statement)]

\* mutant: the catch block rethrows without ROLLBACK
Caught_NoRollback(p, statement) ==
  /\ loc' = [Sent(p, statement) EXCEPT ![p].error = statement, ![p].thrown = statement]
  /\ Finish(p, "StoreError", 0)

\* a statement of the try block throws: the catch block takes the error
Caught(p, statement) ==
  /\ loc' = [Sent(p, statement) EXCEPT ![p].error = statement]
  /\ Goto(p, "r_rollback")

\* BEGIN
ReviewBegin(p) ==
  /\ pc[p] = "r_begin"
  /\ \/ /\ StatementFails
        /\ Caught(p, "BEGIN")
     \/ /\ inTxn' = TRUE
        /\ snap' = IF inTxn THEN snap ELSE db
        /\ loc' = Sent(p, "BEGIN")
        /\ Goto(p, "r_update")
        /\ UNCHANGED <<db, faults>>
  /\ UNCHANGED <<backlog, now, op, arg, pre, alone, lastSubmit, calls, life>>

ReviewStatus(approve) == IF approve THEN "approved" ELSE "rejected"

\* mutant: the upsert runs whatever approve is
AfterUpdate_Always(approve) == "r_upsert"

\* the statement after the UPDATE: the upsert only if (approve)
AfterUpdate(approve) == IF approve THEN "r_upsert" ELSE "r_commit"

\* UPDATE submissions SET status
ReviewUpdate(p) ==
  /\ pc[p] = "r_update"
  /\ \/ /\ StatementFails
        /\ Caught(p, "UPDATE")
     \/ /\ db' = UpdateStatus(db, arg[p].submissionId, ReviewStatus(arg[p].approve))
        /\ loc' = Sent(p, "UPDATE")
        /\ Goto(p, AfterUpdate(arg[p].approve))
        /\ UNCHANGED <<inTxn, snap, faults>>
  /\ UNCHANGED <<backlog, now, op, arg, pre, alone, lastSubmit, calls, life>>

\* the trailers upsert
ReviewUpsert(p) ==
  /\ pc[p] = "r_upsert"
  /\ \/ /\ StatementFails
        /\ Caught(p, "UPSERT")
     \/ /\ db' = UpsertTrailer(db, loc[p].imdb_id, loc[p].acfun_url, arg[p].reviewer)
        /\ loc' = Sent(p, "UPSERT")
        /\ Goto(p, "r_commit")
        /\ UNCHANGED <<inTxn, snap, faults>>
  /\ UNCHANGED <<backlog, now, op, arg, pre, alone, lastSubmit, calls, life>>

\* COMMIT
ReviewCommit(p) ==
  /\ pc[p] = "r_commit"
  /\ \/ /\ StatementFails
        /\ Caught(p, "COMMIT")
     \/ /\ inTxn' = FALSE
        /\ snap' = NoDb
        /\ loc' = Sent(p, "COMMIT")
        /\ Finish(p, "ok", 0)
        /\ UNCHANGED <<db, faults>>
  /\ UNCHANGED <<backlog, now, op, arg, pre, alone, lastSubmit, calls, life>>

\* what ROLLBACK leaves in the tables
RollbackTables(open, d, s) == IF open THEN s ELSE d

\* the catch block: await ROLLBACK, then throw error; a ROLLBACK that fails
\* throws out of the catch block and its error takes the place of the caught one
ReviewRollback(p) ==
  /\ pc[p] = "r_rollback"
  /\ \/ /\ StatementFails
        /\ loc' = [Sent(p, "ROLLBACK") EXCEPT ![p].thrown = "ROLLBACK"]
     \/ /\ db' = RollbackTables(inTxn, db, snap)
        /\ inTxn' = FALSE
        /\ snap' = NoDb
        /\ loc' = [Sent(p, "ROLLBACK") EXCEPT ![p].thrown = loc[p].error]
        /\ UNCHANGED faults
  /\ Finish(p, "StoreError", 0)
  /\ UNCHANGED <<backlog, now, op, arg, pre, alone, lastSubmit, calls, life>>

(* -------------------------- addSecondaryAdmin ------------------------- *)

StartAddAdmin(p, actor, newUsername, newPassword) ==
  Invoke(p, "addSecondaryAdmin",
         [NoArg EXCEPT !.actor = actor, !.newUsername = newUsername,
                       !.newPassword = newPassword], "a_role")

\* SELECT role of the actor and the forbidden throw
AddAdminRole(p) ==
  /\ pc[p] = "a_role"
  /\ \/ /\ StatementFails
        /\ Finish(p, "StoreError", 0)
        /\ UNCHANGED loc
     \/ /\ loc' = [loc EXCEPT ![p].role = SelectRole(db, arg[p].actor)]
        /\ IF IsSuper(SelectRole(db, arg[p].actor))
             THEN Goto(p, "a_exists")
             ELSE Finish(p, "Forbidden", 0)
        /\ UNCHANGED <<db, inTxn, snap, faults>>
  /\ UNCHANGED <<backlog, now, op, arg, pre, alone, lastSubmit, calls, life>>

\* SELECT 1 for the new username and the conflict throw; a call that found no
\* row awaits hashPassword
AddAdminExists(p) ==
  /\ pc[p] = "a_exists"
  /\ \/ /\ StatementFails
        /\ Finish(p, "StoreError", 0)
        /\ UNCHANGED loc
     \/ /\ IF AdminExists(db, arg[p].newUsername)
             THEN /\ Finish(p, "Conflict", 0)
                  /\ loc' = [loc EXCEPT ![p].rows = 1]
             ELSE /\ Goto(p, "a_hash")
                  /\ loc' = [loc EXCEPT ![p].rows = 0]
        /\ UNCHANGED <<db, inTxn, snap, faults>>
  /\ UNCHANGED <<backlog, now, op, arg, pre, alone, lastSubmit, calls, life>>

\* hashPassword has answered (no statement is pending while it runs): the
\* INSERT is sent
AddAdminHash(p) ==
  /\ pc[p] = "a_hash"
  /\ loc' = [loc EXCEPT ![p].hash = hashPassword(arg[p].newPassword)]
  /\ Goto(p, "a_insert")
  /\ UNCHANGED <<db, backlog, inTxn, snap, now, op, arg, pre, alone, lastSubmit,
                 calls, faults, life>>

\* INSERT INTO admins; the primary key rejects a second row for the username
AddAdminInsert(p) ==
  /\ pc[p] = "a_insert"
  /\ \/ /\ StatementFails
        /\ Finish(p, "StoreError", 0)
     \/ /\ UsernameTaken(db, arg[p].newUsername)
        /\ Finish(p, "StoreError", 0)
        /\ UNCHANGED <<db, inTxn, snap, faults>>
     \/ /\ ~UsernameTaken(db, arg[p].newUsername)
        /\ db' = InsertSecondary(db, arg[p].newUsername, loc[p].hash)
        /\ Finish(p, "ok", 0)
        /\ UNCHANGED <<inTxn, snap, faults>>
  /\ UNCHANGED <<backlog, now, op, arg, loc, pre, alone, lastSubmit, calls, life>>

(* -------------------------- Client objects ---------------------------- *)

\* client = new Client(...) in initDb replaces the module-level object; an
\* operation that was sent before acts on the object it was sent on. A replaced
\* object is kept while an operation is in flight on it.
InUse(o) == o.calls # {} \/ o.update > 0 \/ o.reconnect > 0

Live(s) == SelectSeq(s, InUse)

\* the replaced objects a call's pending operation was sent on (one or none)
OnOld(p) == {i \in 1 .. Len(old) : p \in old[i].calls}

\* the state of the Client object the pending operation of call p was sent on
ClientOf(p) ==
  IF OnOld(p) = {} THEN client ELSE old[CHOOSE i \in OnOld(p) : TRUE].state

\* the call awaits an operation of the client
HasPending(q) == pc[q] \in {"i_connect", "i_create", "i_seed", "i_select", "i_insert", "c_end"}

RECURSIVE Pending(_, _)
\* the heartbeat operations of a kind in flight on replaced objects
Pending(s, kind) == IF s = <<>> THEN 0 ELSE Head(s)[kind] + Pending(Tail(s), kind)

\* the heartbeat UPDATEs and connects in flight on the module-level object
ModuleBeats(kind) == hb[kind] - Pending(old, kind)

\* the pending operation of call p has been answered
Released(p) == Live([i \in 1 .. Len(old) |-> [old[i] EXCEPT !.calls = @ \ {p}]])

\* the pending connect() or end() of call p has been answered: the object it
\* was sent on changes its state
SetClient(p, state) ==
  IF OnOld(p) = {}
    THEN /\ client' = state
         /\ old' = old
    ELSE /\ client' = client
         /\ old' = Live([i \in 1 .. Len(old) |->
                          IF p \in old[i].calls
                            THEN [old[i] EXCEPT !.state = state, !.calls = @ \ {p}]
                            ELSE old[i]])

\* the objects a heartbeat operation of a kind is in flight on, 0 for the
\* module-level one
BeatsOn(kind) ==
  {i \in 0 .. Len(old) : IF i = 0 THEN ModuleBeats(kind) > 0 ELSE old[i][kind] > 0}

BeatClient(i) == IF i = 0 THEN client ELSE old[i].state

\* a heartbeat operation in flight on object i has been answered
BeatDone(i, kind) == IF i = 0 THEN old ELSE Live([old EXCEPT ![i][kind] = @ - 1])

\* client = new Client(...): the object that was there goes on with what is
\* in flight on it
Replaced(p) ==
  IF client = "undefined"
    THEN old
    ELSE Live(Append(old, [state |-> client,
                           calls |-> {q \in Procs \ {p} : HasPending(q) /\ OnOld(q) = {}},
                           update |-> ModuleBeats("update"),
                           reconnect |-> ModuleBeats("reconnect")]))

(* ----------------------------- heartbeat ------------------------------ *)

\* heartbeat() up to its first await: without a client it returns, with one it
\* sends the UPDATE
BeatStarted(c, h) == IF c = "undefined" THEN h ELSE [h EXCEPT !.update = @ + 1]

\* UPDATE system_heartbeat SET last_heartbeat = CURRENT_TIMESTAMP WHERE id = 1
UpdateHeartbeat(d) ==
  [d EXCEPT !.system_heartbeat =
     {IF r.id = HeartbeatKey THEN [r EXCEPT !.last_heartbeat = now] ELSE r : r \in @}]

\* mutant: the seed without a key to conflict on
UpsertHeartbeat_Insert(d) ==
  [d EXCEPT !.system_heartbeat = @ \cup {[id |-> HeartbeatKey, last_heartbeat |-> now]}]

\* INSERT INTO system_heartbeat (id, last_heartbeat) VALUES (1, CURRENT_TIMESTAMP)
\* ON CONFLICT (id) DO UPDATE SET last_heartbeat = CURRENT_TIMESTAMP
UpsertHeartbeat(d) ==
  [d EXCEPT !.system_heartbeat =
     {r \in @ : r.id # HeartbeatKey} \cup {[id |-> HeartbeatKey, last_heartbeat |-> now]}]

\* the timer id setInterval returns: ids are handed out in ascending order
NewTimer == heartbeatInterval + 1

\* mutant: startHeartbeat without its first heartbeat() call
startHeartbeat_TimerOnly ==
  /\ hb' = hb
  /\ heartbeatInterval' = NewTimer
  /\ timers' = timers \cup {NewTimer}

\* startHeartbeat(): heartbeat() is called and not awaited, then setInterval;
\* heartbeatInterval is overwritten, a timer it named is not cleared
startHeartbeat ==
  /\ hb' = BeatStarted(client, hb)
  /\ heartbeatInterval' = NewTimer
  /\ timers' = timers \cup {NewTimer}

\* an interval timer fires and calls heartbeat(); MaxBeats bounds the
\* invocations that are in flight when it does
TimerFires ==
  /\ proc = "running"
  /\ \E t \in timers : TRUE
  /\ hb.update + hb.reconnect < MaxBeats
  /\ hb' = BeatStarted(client, hb)
  /\ UNCHANGED <<db, backlog, inTxn, snap, now, pc, op, arg, loc, res, pre, alone,
                 lastSubmit, calls, faults, client, heartbeatInterval, timers, proc, tables, issued, old>>

\* mutant: the catch block of the UPDATE rethrows
UpdateFailed_Rethrown(h) == [h EXCEPT !.update = @ - 1]

\* the catch block of the UPDATE: the error is logged and client.connect() awaited
UpdateFailed(h) == [h EXCEPT !.update = @ - 1, !.reconnect = @ + 1]

\* the UPDATE of a heartbeat() invocation is answered, on the object it was
\* sent on; the connect() of the catch block goes to the module-level client
HeartbeatUpdate ==
  /\ proc = "running"
  /\ hb.update > 0
  /\ \E i \in BeatsOn("update") :
       /\ old' = BeatDone(i, "update")
       /\ \/ /\ BeatClient(i) = "connected"
             /\ "system_heartbeat" \in tables
             /\ db' = UpdateHeartbeat(db)
             /\ hb' = [hb EXCEPT !.update = @ - 1, !.last = "sent"]
             /\ UNCHANGED <<inTxn, snap, faults>>
          \/ /\ \/ StatementFails
                \/ BeatClient(i) # "connected" /\ UNCHANGED <<db, inTxn, snap, faults>>
             /\ hb' = UpdateFailed(hb)
  /\ UNCHANGED <<backlog, now, pc, op, arg, loc, res, pre, alone, lastSubmit, calls,
                 client, heartbeatInterval, timers, proc, tables, issued>>

\* mutant: the catch block of the reconnect rethrows: an unhandled rejection
ReconnectFailed_Rethrown(state) == "crashed"

\* the catch block of the reconnect: the error is logged
ReconnectFailed(state) == state

\* the one client.connect() of a heartbeat() invocation whose UPDATE failed is
\* answered: it connects the object it was sent on
HeartbeatReconnect ==
  /\ proc = "running"
  /\ hb.reconnect > 0
  /\ \E i \in BeatsOn("reconnect") :
       \/ /\ IF i = 0
                THEN client' = "connected" /\ old' = old
                ELSE /\ client' = client
                     /\ old' = Live([old EXCEPT ![i].state = "connected",
                                                ![i].reconnect = @ - 1])
          /\ hb' = [hb EXCEPT !.reconnect = @ - 1, !.last = "reconnected"]
          /\ UNCHANGED proc
       \/ /\ proc' = ReconnectFailed(proc)
          /\ hb' = [hb EXCEPT !.reconnect = @ - 1, !.last = "gave up"]
          /\ old' = BeatDone(i, "reconnect")
          /\ UNCHANGED client
  /\ UNCHANGED <<db, backlog, inTxn, snap, now, pc, op, arg, loc, res, pre, alone,
                 lastSubmit, calls, faults, heartbeatInterval, timers, tables, issued>>

(* ------------------------------- initDb ------------------------------- *)

\* A start of the server runs initDb with the ADMIN_USERNAME and ADMIN_PASSWORD
\* of its environment; client = new Client(...) runs before the first await.
StartInitDb(p, superAdmin, superPwd) ==
  /\ Call(p, "initDb",
          [NoArg EXCEPT !.username = superAdmin, !.password = superPwd], "i_connect")
  /\ client' = "created"
  /\ old' = Replaced(p)
  /\ UNCHANGED <<heartbeatInterval, timers, hb, proc, tables, issued>>

\* mutant: the catch block of the first connect logs the error and goes on
ConnectFailed_Swallowed(p) ==
  /\ loc' = [loc EXCEPT ![p].step = 1]
  /\ Goto(p, "i_create")
  /\ UNCHANGED client
  /\ old' = Released(p)

\* the catch block of the first connect: the error is logged and rethrown
ConnectFailed(p) ==
  /\ Finish(p, "ConnectError", 0)
  /\ UNCHANGED <<loc, client>>
  /\ old' = Released(p)

\* await client.connect()
InitDbConnect(p) ==
  /\ proc = "running"
  /\ pc[p] = "i_connect"
  /\ \/ /\ SetClient(p, "connected")
        /\ loc' = [loc EXCEPT ![p].step = 1]
        /\ Goto(p, "i_create")
     \/ ConnectFailed(p)
  /\ UNCHANGED <<db, backlog, inTxn, snap, now, op, arg, pre, alone, lastSubmit, calls,
                 faults, heartbeatInterval, timers, hb, proc, tables, issued>>

\* mutant: CREATE TABLE without IF NOT EXISTS
CreateRejected_IfExists(ts, t) == t \in ts

\* CREATE TABLE IF NOT EXISTS: a table that exists is no error
CreateRejected(ts, t) == FALSE

\* the four CREATE TABLE IF NOT EXISTS statements, one at a time; an error is thrown
InitDbCreate(p) ==
  /\ proc = "running"
  /\ pc[p] = "i_create"
  /\ \/ /\ \/ StatementFails
           \/ ClientOf(p) # "connected" /\ UNCHANGED <<db, inTxn, snap, faults>>
        /\ Finish(p, "StoreError", 0)
        /\ UNCHANGED <<loc, tables>>
     \/ /\ ClientOf(p) = "connected"
        /\ IF CreateRejected(tables, SchemaTableSeq[loc[p].step])
             THEN /\ Finish(p, "StoreError", 0)
                  /\ UNCHANGED <<loc, tables>>
             ELSE /\ tables' = tables \cup {SchemaTableSeq[loc[p].step]}
                  /\ IF loc[p].step < Len(SchemaTableSeq)
                       THEN loc' = [loc EXCEPT ![p].step = @ + 1] /\ UNCHANGED <<pc, res>>
                       ELSE UNCHANGED loc /\ Goto(p, "i_seed")
        /\ UNCHANGED <<db, inTxn, snap, faults>>
  /\ old' = Released(p)
  /\ UNCHANGED <<backlog, now, op, arg, pre, alone, lastSubmit, calls,
                 client, heartbeatInterval, timers, hb, proc, issued>>

\* initDb returns: its last statement is startHeartbeat()
InitDbDone(p) ==
  /\ Finish(p, "ok", 0)
  /\ startHeartbeat
  /\ old' = Released(p)
  /\ UNCHANGED <<client, proc, tables, issued>>

\* initDb throws
InitDbThrows(p) ==
  /\ Finish(p, "StoreError", 0)
  /\ old' = Released(p)
  /\ UNCHANGED <<client, heartbeatInterval, timers, hb, proc, tables, issued>>

\* the upsert of the heartbeat row, an error of which is logged as a warning,
\* and the environment check that follows: with ADMIN_USERNAME and
\* ADMIN_PASSWORD set the SELECT 1 is sent, without them initDb ends
InitDbSeed(p) ==
  /\ proc = "running"
  /\ pc[p] = "i_seed"
  /\ \/ \/ StatementFails
        \/ ClientOf(p) # "connected" /\ UNCHANGED <<db, inTxn, snap, faults>>
     \/ /\ ClientOf(p) = "connected"
        /\ db' = UpsertHeartbeat(db)
        /\ UNCHANGED <<inTxn, snap, faults>>
  /\ IF BootstrapConfigured(arg[p].username, arg[p].password)
       THEN /\ Goto(p, "i_select")
            /\ old' = Released(p)
            /\ UNCHANGED <<client, heartbeatInterval, timers, hb, proc, tables, issued>>
       ELSE InitDbDone(p)
  /\ UNCHANGED <<backlog, now, op, arg, loc, pre, alone, lastSubmit, calls>>

\* SELECT 1 for ADMIN_USERNAME: a call that found no row awaits hashPassword
InitDbSelect(p) ==
  /\ proc = "running"
  /\ pc[p] = "i_select"
  /\ \/ /\ \/ StatementFails
           \/ ClientOf(p) # "connected" /\ UNCHANGED <<db, inTxn, snap, faults>>
        /\ InitDbThrows(p)
        /\ UNCHANGED loc
     \/ /\ ClientOf(p) = "connected"
        /\ IF NeedsBootstrap(Cardinality({a \in db.admins : a.username = arg[p].username}))
             THEN /\ Goto(p, "i_hash")
                  /\ loc' = [loc EXCEPT ![p].rows = 0]
                  /\ old' = Released(p)
                  /\ UNCHANGED <<client, heartbeatInterval, timers, hb, proc,
                                 tables, issued>>
             ELSE /\ InitDbDone(p)
                  /\ loc' = [loc EXCEPT ![p].rows = 1]
        /\ UNCHANGED <<db, inTxn, snap, faults>>
  /\ UNCHANGED <<backlog, now, op, arg, pre, alone, lastSubmit, calls>>

\* hashPassword has answered (nothing of the call is in flight while it
\* runs): the INSERT is sent, on the client the module holds by now
InitDbHash(p) ==
  /\ proc = "running"
  /\ pc[p] = "i_hash"
  /\ loc' = [loc EXCEPT ![p].hash = hashPassword(arg[p].password)]
  /\ Goto(p, "i_insert")
  /\ UNCHANGED <<db, backlog, inTxn, snap, now, op, arg, pre, alone, lastSubmit,
                 calls, faults, life>>

\* INSERT INTO admins with role 'super'; the primary key rejects a second row
InitDbInsert(p) ==
  /\ proc = "running"
  /\ pc[p] = "i_insert"
  /\ \/ /\ \/ StatementFails
           \/ ClientOf(p) # "connected" /\ UNCHANGED <<db, inTxn, snap, faults>>
        /\ InitDbThrows(p)
     \/ /\ ClientOf(p) = "connected"
        /\ UsernameTaken(db, arg[p].username)
        /\ InitDbThrows(p)
        /\ UNCHANGED <<db, inTxn, snap, faults>>
     \/ /\ ClientOf(p) = "connected"
        /\ ~UsernameTaken(db, arg[p].username)
        /\ db' = InsertSuper(db, arg[p].username, loc[p].hash)
        /\ InitDbDone(p)
        /\ UNCHANGED <<inTxn, snap, faults>>
  /\ UNCHANGED <<backlog, now, op, arg, loc, pre, alone, lastSubmit, calls>>

(* ------------------------------ closeDb ------------------------------- *)

\* mutant: closeDb without its clearInterval
ClearInterval_Never(handle, ts) == ts

\* if (heartbeatInterval) clearInterval(heartbeatInterval)
ClearInterval(handle, ts) == IF handle # 0 THEN ts \ {handle} ELSE ts

\* closeDb up to its first await: the timer is cleared; heartbeatInterval keeps its value
CloseEntered ==
  /\ timers' = ClearInterval(heartbeatInterval, timers)
  /\ UNCHANGED <<client, heartbeatInterval, hb, proc, tables, issued, old>>

\* if (client) await client.end(): without a client closeDb has nothing to await
CloseFirst == IF client = "undefined" THEN "c_return" ELSE "c_end"

\* closeDb is called
StartClose(p) ==
  /\ Call(p, "closeDb", NoArg, CloseFirst)
  /\ CloseEntered

\* await client.end()
CloseEnd(p) ==
  /\ proc = "running"
  /\ pc[p] = "c_end"
  /\ \/ /\ StatementFails
        /\ Finish(p, "StoreError", 0)
        /\ UNCHANGED client
        /\ old' = Released(p)
     \/ /\ SetClient(p, "ended")
        /\ Goto(p, "c_return")
        /\ UNCHANGED <<db, inTxn, snap, faults>>
  /\ UNCHANGED <<backlog, now, op, arg, loc, pre, alone, lastSubmit, calls,
                 heartbeatInterval, timers, hb, proc, tables, issued>>

\* closeDb returns
CloseReturn(p) ==
  /\ proc = "running"
  /\ pc[p] = "c_return"
  /\ Finish(p, "ok", 0)
  /\ UNCHANGED <<db, backlog, inTxn, snap, now, op, arg, loc, pre, alone, lastSubmit,
                 calls, faults, life>>

(* ------------------------- the server process ------------------------- *)

Signals == {"SIGINT", "SIGTERM"}

\* the environment of the deployment: the bootstrap variables set, or none
ServerEnv == {<<"", "">>, <<BootstrapAdmin, BootstrapPassword>>}

\* main.ts awaits initDb() before it serves: a start is the first initDb
ServerStart(p) ==
  /\ client = "undefined"
  /\ \E e \in ServerEnv : StartInitDb(p, e[1], e[2])

\* initDb returned: the module goes on to serve and to register its listeners
ServerReturn(p) ==
  /\ op[p] = "initDb" /\ res[p].status = "ok"
  /\ Return(p)

\* initDb threw: the top-level await rejects and the process ends
StartupAborts(p) ==
  /\ proc = "running"
  /\ op[p] = "initDb" /\ pc[p] = "done" /\ res[p].status # "ok"
  /\ proc' = "crashed"
  /\ UNCHANGED <<db, backlog, inTxn, snap, now, pc, op, arg, loc, res, pre, alone,
                 lastSubmit, calls, faults, client, heartbeatInterval, timers, hb, tables, issued, old>>

\* a signal arrives and its listener calls closeDb; the listeners are registered
\* once initDb has returned, and one delivery per signal is followed
SignalDelivered(p, signal) ==
  /\ heartbeatInterval # 0
  /\ \A q \in Procs : op[q] # "initDb" /\ arg[q].signal # signal
  /\ Enter(p, "closeDb", [NoArg EXCEPT !.signal = signal], CloseFirst)
  /\ CloseEntered
  /\ UNCHANGED calls

\* the listener after await closeDb(): Deno.exit(0); a rejected closeDb is an
\* unhandled rejection
ListenerExits(p) ==
  /\ proc = "running"
  /\ op[p] = "closeDb" /\ pc[p] = "done" /\ arg[p].signal \in Signals
  /\ proc' = IF res[p].status = "ok" THEN "exited" ELSE "crashed"
  /\ UNCHANGED <<db, backlog, inTxn, snap, now, pc, op, arg, loc, res, pre, alone,
                 lastSubmit, calls, faults, client, heartbeatInterval, timers, hb, tables, issued, old>>

(* ---------------------------- verifyAdmin ----------------------------- *)

StartVerify(p, username, password) ==
  Invoke(p, "verifyAdmin",
         [NoArg EXCEPT !.username = username, !.password = password], "v_select")

\* the call returns its result object
FinishVerify(p, valid, role, username) ==
  /\ pc' = [pc EXCEPT ![p] = "done"]
  /\ res' = [res EXCEPT ![p] = [NoRes EXCEPT !.status = "ok", !.valid = valid,
                                             !.role = role, !.username = username]]

\* what verifyAdmin does with the row it read once verifyPassword has answered:
\* the result object, or the TypeError of its role expression
VerifyOutcome(row, password) ==
  LET valid == verifyPassword(password, row.password_hash)
  IN  IF VerifiedRole(row, valid) = "TypeError"
        THEN [status |-> "TypeError", valid |-> FALSE,
              role |-> "undefined", username |-> "undefined"]
        ELSE [status |-> "ok", valid |-> valid, role |-> VerifiedRole(row, valid),
              username |-> VerifiedUsername(row, valid)]

\* the SELECT of the admin row: without a row the call returns {valid: false}
\* at once, with one it awaits verifyPassword
VerifySelect(p) ==
  /\ pc[p] = "v_select"
  /\ \/ /\ StatementFails
        /\ Finish(p, "StoreError", 0)
        /\ UNCHANGED loc
     \/ /\ IF SelectAdmin(db, arg[p].username) = {}
             THEN /\ FinishVerify(p, FALSE, "undefined", "undefined")
                  /\ loc' = [loc EXCEPT ![p].rows = 0]
             ELSE /\ Goto(p, "v_hash")
                  /\ loc' = [loc EXCEPT
                              ![p].rows = Cardinality(SelectAdmin(db, arg[p].username)),
                              ![p].row = CHOOSE r \in SelectAdmin(db, arg[p].username) : TRUE]
        /\ UNCHANGED <<db, inTxn, snap, faults>>
  /\ UNCHANGED <<backlog, now, op, arg, pre, alone, lastSubmit, calls, life>>

\* verifyPassword has answered (no statement is pending while it runs): the
\* result object is built, which throws when the password matched
VerifyHash(p) ==
  /\ pc[p] = "v_hash"
  /\ LET result == VerifyOutcome(loc[p].row, arg[p].password)
     IN  IF result.status = "ok"
           THEN FinishVerify(p, result.valid, result.role, result.username)
           ELSE Finish(p, result.status, 0)
  /\ UNCHANGED <<db, backlog, inTxn, snap, now, op, arg, loc, pre, alone, lastSubmit,
                 calls, faults, life>>

(* ----------------------- getPendingSubmissions ------------------------ *)

StartList(p) == Invoke(p, "getPendingSubmissions", NoArg, "l_select")

\* the one SELECT; result.rows is returned as it comes
ListSelect(p) ==
  /\ pc[p] = "l_select"
  /\ \/ /\ StatementFails
        /\ Finish(p, "StoreError", 0)
     \/ /\ \E rows \in getPendingSubmissions(db) :
             res' = [res EXCEPT ![p] = [NoRes EXCEPT !.status = "ok", !.rows = rows]]
        /\ pc' = [pc EXCEPT ![p] = "done"]
        /\ UNCHANGED <<db, inTxn, snap, faults>>
  /\ UNCHANGED <<backlog, now, op, arg, loc, pre, alone, lastSubmit, calls, life>>

(* ------------------ authenticateAdmin, Basic variant ------------------ *)

\* new TextDecoder().decode(atob(encoded)): decode is handed the string that
\* atob returns, not bytes. A runtime that checks the argument throws a
\* TypeError; one that does not decodes no bytes, or hands the text on.
TextDecode(text) == {<<"TypeError">>, <<"", "">>, text}

\* the Authorization headers of a request: none, another scheme, or Basic with
\* the base64 of username:password (names and passwords without a colon)
AuthHeaders ==
  {<<"", "", "">>, <<"Bearer", "", "">>} \cup
  {<<"Basic", u, w>> : u \in Usernames, w \in Passwords \cup {""}}

\* the status the /admin route answers a request with, given the result of
\* authenticateAdmin
AdminRouteStatus(valid) == IF valid THEN "200" ELSE "401"

StartAuth(p, scheme, username, password) ==
  Invoke(p, "authenticateAdmin",
         [NoArg EXCEPT !.scheme = scheme, !.username = username, !.password = password],
         "b_header")

\* the header checks, the decoding and the split at the colon; whatever is
\* thrown is caught and answered with {valid: false}
AuthHeader(p) ==
  /\ pc[p] = "b_header"
  /\ IF arg[p].scheme # "Basic"
       THEN FinishVerify(p, FALSE, "undefined", "undefined")
       ELSE \E decoded \in TextDecode(<<arg[p].username, arg[p].password>>) :
              IF Len(decoded) < 2 \/ decoded[1] = "" \/ decoded[2] = ""
                THEN FinishVerify(p, FALSE, "undefined", "undefined")
                ELSE Goto(p, "b_verify")
  /\ UNCHANGED <<db, backlog, inTxn, snap, now, op, arg, loc, pre, alone, lastSubmit,
                 calls, faults, life>>

\* return await verifyAdmin(username, password) inside the try block, up to
\* the answer to its SELECT: an error of the query ends in the catch block
AuthVerify(p) ==
  /\ pc[p] = "b_verify"
  /\ \/ /\ StatementFails
        /\ FinishVerify(p, FALSE, "undefined", "undefined")
        /\ UNCHANGED loc
     \/ /\ IF SelectAdmin(db, arg[p].username) = {}
             THEN /\ FinishVerify(p, FALSE, "undefined", "undefined")
                  /\ loc' = [loc EXCEPT ![p].rows = 0]
             ELSE /\ Goto(p, "b_hash")
                  /\ loc' = [loc EXCEPT
                              ![p].rows = Cardinality(SelectAdmin(db, arg[p].username)),
                              ![p].row = CHOOSE r \in SelectAdmin(db, arg[p].username) : TRUE]
        /\ UNCHANGED <<db, inTxn, snap, faults>>
  /\ UNCHANGED <<backlog, now, op, arg, pre, alone, lastSubmit, calls, life>>

\* verifyAdmin after its verifyPassword: the TypeError it throws ends in the
\* catch block of authenticateAdmin
AuthHash(p) ==
  /\ pc[p] = "b_hash"
  /\ LET result == VerifyOutcome(loc[p].row, arg[p].password)
     IN  IF result.status = "ok"
           THEN FinishVerify(p, result.valid, result.role, result.username)
           ELSE FinishVerify(p, FALSE, "undefined", "undefined")
  /\ UNCHANGED <<db, backlog, inTxn, snap, now, op, arg, loc, pre, alone, lastSubmit,
                 calls, faults, life>>

(* ------------- authenticateAdmin and login, cookie variant ------------ *)

\* the Cookie header of a request as <<name, value>>, <<>> for a request
\* without one. The admin cookie holds the bare username: the browser sends
\* back what Set-Cookie gave it, and any other client sends what it likes.
Cookies ==
  {<<>>, <<"session", "root">>, <<"xadmin", "root">>} \cup
  {<<"admin", u>> : u \in Usernames}

\* the cookie names of the model that end in "admin"
AdminSuffixed == {"admin", "xadmin", "notadmin"}

\* the first group of cookie.match(/admin=([^;]+)/), "" where nothing matches;
\* the expression is not anchored, a name that ends in admin matches as well
CookieMatch(cookie) ==
  IF Len(cookie) = 2 /\ cookie[1] \in AdminSuffixed /\ cookie[2] # ""
    THEN cookie[2]
    ELSE ""

\* mutant: main.ts imports client from db.ts
ClientInScope_Imported == TRUE

\* the identifier client in main.ts of the cookie variant: db.ts exports it,
\* main.ts neither imports nor declares it, reading it throws a ReferenceError
ClientInScope == FALSE

\* POST /admin/login with a username and a password
StartLogin(p, username, password) ==
  Invoke(p, "login",
         [NoArg EXCEPT !.username = username, !.password = password, !.route = "login"],
         "l_verify")

\* await verifyAdmin(username, password), up to the answer to its SELECT; the
\* route has no try block, what verifyAdmin throws ends the request
LoginVerify(p) ==
  /\ pc[p] = "l_verify"
  /\ \/ /\ StatementFails
        /\ Finish(p, "StoreError", 0)
        /\ UNCHANGED loc
     \/ /\ IF SelectAdmin(db, arg[p].username) = {}
             THEN /\ FinishVerify(p, FALSE, "undefined", "undefined")
                  /\ loc' = [loc EXCEPT ![p].rows = 0]
             ELSE /\ Goto(p, "l_hash")
                  /\ loc' = [loc EXCEPT
                              ![p].rows = Cardinality(SelectAdmin(db, arg[p].username)),
                              ![p].row = CHOOSE r \in SelectAdmin(db, arg[p].username) : TRUE]
        /\ UNCHANGED <<db, inTxn, snap, faults>>
  /\ UNCHANGED <<backlog, now, op, arg, pre, alone, lastSubmit, calls, life>>

\* verifyAdmin after its verifyPassword, and the Set-Cookie of an accepted login
LoginHash(p) ==
  /\ pc[p] = "l_hash"
  /\ LET result == VerifyOutcome(loc[p].row, arg[p].password)
     IN  /\ IF result.status = "ok"
              THEN FinishVerify(p, result.valid, result.role, result.username)
              ELSE Finish(p, result.status, 0)
         /\ issued' = IF result.status = "ok" /\ result.valid
                        THEN issued \cup {arg[p].username}
                        ELSE issued
  /\ UNCHANGED <<db, backlog, inTxn, snap, now, op, arg, loc, pre, alone, lastSubmit,
                 calls, faults, client, heartbeatInterval, timers, hb, proc, tables, old>>

\* a POST to /admin (route "review") or to /admin/api/admins (route "admins")
StartRequest(p, cookie, route, submissionId, approve, newUsername, newPassword) ==
  Invoke(p, "authenticateAdmin",
         [NoArg EXCEPT !.cookie = cookie, !.route = route,
                       !.submissionId = submissionId, !.approve = approve,
                       !.newUsername = newUsername, !.newPassword = newPassword],
         "k_select")

\* authenticateAdmin of the cookie variant and the route's use of its result.
\* No cookie is answered with {valid: false}. With one, `client.queryObject`
\* is evaluated: the identifier is not in scope and the request ends with a
\* ReferenceError before a statement is sent. Were it in scope, no admin row
\* of that name would be answered with {valid: false}, and otherwise the route
\* would call reviewSubmission or, for a super admin, addSecondaryAdmin with
\* the username of the row.
CookieSelect(p) ==
  /\ pc[p] = "k_select"
  /\ \/ /\ CookieMatch(arg[p].cookie) = ""
        /\ FinishVerify(p, FALSE, "undefined", "undefined")
        /\ UNCHANGED <<op, arg, faults>>
     \/ /\ CookieMatch(arg[p].cookie) # ""
        /\ ~ClientInScope
        /\ Finish(p, "ReferenceError", 0)
        /\ UNCHANGED <<op, arg, faults>>
     \/ /\ CookieMatch(arg[p].cookie) # ""
        /\ ClientInScope
        /\ StatementFails
        /\ Finish(p, "StoreError", 0)
        /\ UNCHANGED <<op, arg>>
     \/ /\ CookieMatch(arg[p].cookie) # ""
        /\ ClientInScope
        /\ UNCHANGED faults
        /\ IF SelectAdmin(db, CookieMatch(arg[p].cookie)) = {}
             THEN /\ FinishVerify(p, FALSE, "undefined", "undefined")
                  /\ UNCHANGED <<op, arg>>
             ELSE LET row == CHOOSE r \in SelectAdmin(db, CookieMatch(arg[p].cookie)) : TRUE
                  IN  IF arg[p].route = "review"
                        THEN /\ op' = [op EXCEPT ![p] = "reviewSubmission"]
                             /\ arg' = [arg EXCEPT ![p].reviewer = row.username]
                             /\ Goto(p, "r_select")
                        ELSE IF row.role # "super"
                          THEN /\ Finish(p, "Forbidden", 0)
                               /\ UNCHANGED <<op, arg>>
                          ELSE /\ op' = [op EXCEPT ![p] = "addSecondaryAdmin"]
                               /\ arg' = [arg EXCEPT ![p].actor = row.username]
                               /\ Goto(p, "a_role")
  /\ UNCHANGED <<db, backlog, inTxn, snap, now, loc, pre, alone, lastSubmit, calls, life>>

(* --------------------------- specification ---------------------------- *)

\* the ids a reviewer posts: those of the rows in the table, and one of no row
ReviewIds == {r.id : r \in db.submissions} \cup {0}

\* a rejection never reads its reviewer argument: one value stands for all
ReviewInputs ==
  {<<id, TRUE, r>> : id \in ReviewIds, r \in Reviewers} \cup
  {<<id, FALSE, BootstrapAdmin>> : id \in ReviewIds}

SubmitStep(p) ==
  \/ \E i \in ImdbIds, u \in Urls : StartSubmit(p, i, u)
  \/ SubmitCount(p)
  \/ SubmitInsert(p)
  \/ SubmitRetry(p)

ReviewStep(p) ==
  \/ \E in \in ReviewInputs : StartReview(p, in[1], in[2], in[3])
  \/ ReviewSelect(p)
  \/ ReviewBegin(p)
  \/ ReviewUpdate(p)
  \/ ReviewUpsert(p)
  \/ ReviewCommit(p)
  \/ ReviewRollback(p)

AdminStep(p) ==
  \/ \E x \in Usernames, n \in NewUsernames, w \in Passwords : StartAddAdmin(p, x, n, w)
  \/ AddAdminRole(p)
  \/ AddAdminExists(p)
  \/ AddAdminHash(p)
  \/ AddAdminInsert(p)

\* the environment of a start: both variables set, or none
BootstrapEnv == {<<"", "">>} \cup (NewUsernames \X Passwords)

InitDbStep(p) ==
  \/ \E e \in BootstrapEnv : StartInitDb(p, e[1], e[2])
  \/ InitDbConnect(p)
  \/ InitDbCreate(p)
  \/ InitDbSeed(p)
  \/ InitDbSelect(p)
  \/ InitDbHash(p)
  \/ InitDbInsert(p)

ListStep(p) ==
  \/ StartList(p)
  \/ ListSelect(p)

VerifyStep(p) ==
  \/ \E x \in Usernames, w \in Passwords : StartVerify(p, x, w)
  \/ VerifySelect(p)
  \/ VerifyHash(p)

AuthStep(p) ==
  \/ \E h \in AuthHeaders : StartAuth(p, h[1], h[2], h[3])
  \/ AuthHeader(p)
  \/ AuthVerify(p)
  \/ AuthHash(p)

\* the Basic variant of the server: requests to /admin and addSecondaryAdmin calls
NextBasicAuth == \E p \in Procs : AuthStep(p) \/ AdminStep(p) \/ Return(p)

CookieStep(p) ==
  \/ \E u \in Usernames, w \in Passwords : StartLogin(p, u, w)
  \/ LoginVerify(p)
  \/ LoginHash(p)
  \/ \E c \in Cookies, id \in ReviewIds, approve \in BOOLEAN :
       StartRequest(p, c, "review", id, approve, "", "")
  \/ \E c \in Cookies, n \in NewUsernames, w \in Passwords :
       StartRequest(p, c, "admins", 0, FALSE, n, w)
  \/ CookieSelect(p)

\* the cookie variant of the server: logins and requests to the admin routes
NextCookieAuth == \E p \in Procs : CookieStep(p) \/ Return(p)

\* submitEntry calls alone, with the clock running
NextSubmit == Tick \/ \E p \in Procs : SubmitStep(p) \/ Return(p)

\* submitEntry and reviewSubmission calls
NextModeration == \E p \in Procs : SubmitStep(p) \/ ReviewStep(p) \/ Return(p)

\* the moderation queue: submitEntry, reviewSubmission and getPendingSubmissions calls
NextQueue == \E p \in Procs : SubmitStep(p) \/ ReviewStep(p) \/ ListStep(p) \/ Return(p)

\* addSecondaryAdmin and verifyAdmin calls, with the clock running
NextAdmin == Tick \/ \E p \in Procs : AdminStep(p) \/ VerifyStep(p) \/ Return(p)

BeatStep == TimerFires \/ HeartbeatUpdate \/ HeartbeatReconnect

\* the process of main.ts: one initDb, the heartbeat, and the signal listeners
NextServer ==
  \/ Tick
  \/ BeatStep
  \/ \E p \in Procs :
       \/ ServerStart(p)
       \/ InitDbConnect(p) \/ InitDbCreate(p) \/ InitDbSeed(p)
       \/ InitDbSelect(p) \/ InitDbHash(p) \/ InitDbInsert(p)
       \/ ServerReturn(p)
       \/ StartupAborts(p)
       \/ \E signal \in Signals : SignalDelivered(p, signal)
       \/ CloseEnd(p)
       \/ CloseReturn(p)
       \/ ListenerExits(p)

\* the connection and the timer under any use of the exports initDb and closeDb
NextLifecycle ==
  \/ BeatStep
  \/ \E p \in Procs :
       \/ \E e \in ServerEnv : StartInitDb(p, e[1], e[2])
       \/ InitDbConnect(p) \/ InitDbCreate(p) \/ InitDbSeed(p)
       \/ InitDbSelect(p) \/ InitDbHash(p) \/ InitDbInsert(p)
       \/ StartClose(p) \/ CloseEnd(p) \/ CloseReturn(p) \/ Return(p)

\* the writers of admins: addSecondaryAdmin and initDb calls
NextBootstrap == \E p \in Procs : AdminStep(p) \/ InitDbStep(p) \/ Return(p)

Next ==
  Tick \/ \E p \in Procs : SubmitStep(p) \/ ReviewStep(p) \/ AdminStep(p) \/ InitDbStep(p)
                             \/ VerifyStep(p) \/ ListStep(p) \/ Return(p)

Spec == Init /\ [][Next]_vars
SpecSubmit == Init /\ [][NextSubmit]_vars

\* every awaited statement is answered and its call resumed
SpecSubmitFair ==
  SpecSubmit /\ \A p \in Procs : WF_vars(SubmitCount(p) \/ SubmitInsert(p) \/ SubmitRetry(p))
\* The module is loaded and initDb has not run; the store is empty or holds the
\* data of an earlier run.
InitFresh ==
  /\ \/ db = NoDb /\ tables = {}
     \/ db = SeedDb /\ tables = SchemaTables
  /\ client = "undefined"
  /\ heartbeatInterval = 0
  /\ timers = {}
  /\ hb = NoBeats
  /\ proc = "running"
  /\ issued = {}
  /\ old = <<>>
  /\ backlog = 0
  /\ inTxn = FALSE
  /\ snap = NoDb
  /\ now = SeedCount + 1
  /\ pc = [p \in Procs |-> "idle"]
  /\ op = [p \in Procs |-> "none"]
  /\ arg = [p \in Procs |-> NoArg]
  /\ loc = [p \in Procs |-> NoLoc]
  /\ res = [p \in Procs |-> NoRes]
  /\ pre = [p \in Procs |-> NoDb]
  /\ alone = [p \in Procs |-> FALSE]
  /\ lastSubmit = NoSubmit
  /\ calls = 0
  /\ faults = 0

SpecServer == InitFresh /\ [][NextServer]_vars
\* setInterval fires the timer as long as it is set, and the event loop resumes
\* every awaited statement of a heartbeat
SpecServerFair ==
  SpecServer /\ WF_vars(TimerFires) /\ WF_vars(HeartbeatUpdate) /\ WF_vars(HeartbeatReconnect)
SpecLifecycle == InitFresh /\ [][NextLifecycle]_vars
SpecBootstrap == Init /\ [][NextBootstrap]_vars
SpecQueue == Init /\ [][NextQueue]_vars
SpecModeration == Init /\ [][NextModeration]_vars
SpecAdmin == Init /\ [][NextAdmin]_vars
SpecBasicAuth == Init /\ [][NextBasicAuth]_vars
SpecCookieAuth == Init /\ [][NextCookieAuth]_vars

(* ------------------------------ claims -------------------------------- *)

\* the tables as committed: inside an open transaction, as they were at BEGIN
Committed == IF inTxn THEN snap ELSE db

PendingIn(rows) == Cardinality({r \in rows : r.status = "pending"})

\* C1: in every reachable state the number of pending submissions (the older
\* backlog included) is at most 400.
C1_PendingAtMostLimit ==
  backlog + PendingIn(Committed.submissions) <= 400

\* C2: a submitEntry call that has read a pending count of 400 or more has
\* thrown the capacity error without issuing another statement, and when no
\* other call ran beside it the tables are as they were at its invocation.
C2_CapacityErrorNoWrite ==
  \A p \in Procs :
    (op[p] = "submitEntry" /\ loc[p].pendingCount >= 400) =>
      /\ pc[p] = "done"
      /\ res[p].status = "CapacityExceeded"
      /\ alone[p] => db = pre[p]

C2_Witness ==
  \E p \in Procs :
    /\ op[p] = "submitEntry" /\ pc[p] = "done" /\ alone[p]
    /\ loc[p].pendingCount = 400
    /\ res[p].status = "CapacityExceeded"
    /\ db = pre[p]

\* C3: once the committed status of a submission is 'approved' or 'rejected',
\* no step changes it.
C3_DecidedIsFinal ==
  [][\A r \in Committed.submissions :
       r.status \in {"approved", "rejected"} =>
         \E r2 \in Committed'.submissions : r2.id = r.id /\ r2.status = r.status]_vars

\* C4: the pre-check of reviewSubmission returns the pending rows with the
\* given id, none for an id of no row or of a decided row; a call whose
\* pre-check found no row has thrown not-found without issuing BEGIN, UPDATE
\* or the upsert, and the tables are as before (no transaction was opened).
C4_NotFoundNoWrite ==
  \A p \in Procs :
    op[p] = "reviewSubmission" =>
      /\ (alone[p] /\ loc[p].rows >= 0) =>
           loc[p].rows = Cardinality({r \in pre[p].submissions :
                            r.id = arg[p].submissionId /\ r.status = "pending"})
      /\ loc[p].rows = 0 =>
           /\ pc[p] = "done"
           /\ res[p].status = "NotFound"
           /\ loc[p].sent = <<>>
           /\ alone[p] => (db = pre[p] /\ ~inTxn)

C4_Witness ==
  \E p \in Procs :
    /\ op[p] = "reviewSubmission" /\ pc[p] = "done" /\ alone[p]
    /\ res[p].status = "NotFound"
    /\ \E r \in db.submissions :
         r.id = arg[p].submissionId /\ r.status \in {"approved", "rejected"}
    /\ db = pre[p]

\* C5: a reviewSubmission call in which BEGIN, the UPDATE, the upsert or COMMIT
\* failed goes through the catch block and throws; when no other call ran
\* beside it and the store executed the ROLLBACK of the catch block, the tables
\* are then exactly as at its invocation.
C5_FailedReviewRollsBack ==
  \A p \in Procs :
    (op[p] = "reviewSubmission" /\ loc[p].error # "") =>
      /\ pc[p] \in {"r_rollback", "done"}
      /\ pc[p] = "done" =>
           /\ res[p].status = "StoreError"
           /\ (alone[p] /\ loc[p].thrown # "ROLLBACK") => (db = pre[p] /\ ~inTxn)

C5_Witness ==
  \E p \in Procs :
    /\ op[p] = "reviewSubmission" /\ pc[p] = "done" /\ alone[p]
    /\ arg[p].approve
    /\ loc[p].error = "COMMIT"
    /\ res[p].status = "StoreError"
    /\ db = pre[p]

\* C6: in every committed state each approved submission has a trailers row
\* with its imdb_id.
C6_ApprovedHasTrailer ==
  \A r \in Committed.submissions :
    r.status = "approved" =>
      \E t \in Committed.trailers : t.imdb_id = r.imdb_id

\* C7: when reviewSubmission(id, true, r) completes, id being the id that the
\* submitEntry(s, u) call just before it returned and no other call having run
\* in between or beside, getAcfunUrl(s) is u and the pending count is one less
\* than at the invocation of the review.
C7_RoundTrip ==
  \A p \in Procs :
    ( /\ op[p] = "reviewSubmission" /\ pc[p] = "done" /\ alone[p]
      /\ res[p].status = "ok" /\ arg[p].approve
      /\ loc[p].after.id # 0
      /\ loc[p].after.id = arg[p].submissionId ) =>
      /\ getAcfunUrl(db, loc[p].after.imdbId) = loc[p].after.acfunUrl
      /\ backlog + PendingIn(db.submissions) =
           backlog + PendingIn(pre[p].submissions) - 1

C7_Witness ==
  \E p \in Procs :
    /\ op[p] = "reviewSubmission" /\ pc[p] = "done" /\ alone[p]
    /\ res[p].status = "ok" /\ arg[p].approve
    /\ loc[p].after.id # 0
    /\ loc[p].after.id = arg[p].submissionId
    /\ getAcfunUrl(db, loc[p].after.imdbId) = loc[p].after.acfunUrl

\* C8: a reviewSubmission call with approve = false never reaches the upsert,
\* and when no other call ran beside it the trailers table stays as it was at
\* the invocation, so getAcfunUrl of a source without a row stays null.
C8_RejectDoesNotPublish ==
  \A p \in Procs :
    (op[p] = "reviewSubmission" /\ ~arg[p].approve) =>
      /\ pc[p] # "r_upsert"
      /\ alone[p] =>
           /\ db.trailers = pre[p].trailers
           /\ \A i \in ImdbIds :
                getAcfunUrl(pre[p], i) = "null" => getAcfunUrl(db, i) = "null"

C8_Witness ==
  \E p \in Procs :
    /\ op[p] = "reviewSubmission" /\ pc[p] = "done" /\ alone[p]
    /\ res[p].status = "ok" /\ ~arg[p].approve
    /\ \E r \in db.submissions :
         /\ r.id = arg[p].submissionId /\ r.status = "rejected"
         /\ getAcfunUrl(db, r.imdb_id) = "null"

\* C9: trailers never holds two rows with one imdb_id, and when an approval
\* completes with no other call beside it, the row of the submission's
\* imdb_id carries the submission's acfun_url and the reviewer of this call,
\* whatever an earlier approval had published for that imdb_id.
C9_OneRowLastApprovalWins ==
  /\ \A t1, t2 \in db.trailers : t1.imdb_id = t2.imdb_id => t1 = t2
  /\ \A p \in Procs :
       ( /\ op[p] = "reviewSubmission" /\ pc[p] = "done" /\ alone[p]
         /\ res[p].status = "ok" /\ arg[p].approve ) =>
         \A r \in pre[p].submissions :
           r.id = arg[p].submissionId =>
             \E t \in db.trailers :
               /\ t.imdb_id = r.imdb_id
               /\ t.acfun_url = r.acfun_url
               /\ t.reviewer = arg[p].reviewer

C9_Witness ==
  \E p \in Procs :
    /\ op[p] = "reviewSubmission" /\ pc[p] = "done" /\ alone[p]
    /\ res[p].status = "ok" /\ arg[p].approve
    /\ \E r \in pre[p].submissions, was \in pre[p].trailers, t \in db.trailers :
         /\ r.id = arg[p].submissionId
         /\ was.imdb_id = r.imdb_id /\ t.imdb_id = r.imdb_id
         /\ was.acfun_url # r.acfun_url /\ was.reviewer # arg[p].reviewer
         /\ t.acfun_url = r.acfun_url /\ t.reviewer = arg[p].reviewer
         /\ Cardinality({x \in db.trailers : x.imdb_id = r.imdb_id}) = 1

\* C10: an addSecondaryAdmin call whose actor is no admin or an admin whose
\* role is not 'super' has thrown the forbidden error without issuing another
\* statement, and when no other call ran beside it admins is unchanged.
C10_ForbiddenUnlessSuper ==
  \A p \in Procs :
    op[p] = "addSecondaryAdmin" =>
      /\ (alone[p] /\ loc[p].role # "") =>
           \/ \E a \in pre[p].admins : a.username = arg[p].actor /\ a.role = loc[p].role
           \/ loc[p].role = "none" /\ \A a \in pre[p].admins : a.username # arg[p].actor
      /\ loc[p].role \notin {"", "super"} =>
           /\ pc[p] = "done"
           /\ res[p].status = "Forbidden"
           /\ alone[p] => db.admins = pre[p].admins

C10_Witness ==
  \E p \in Procs :
    /\ op[p] = "addSecondaryAdmin" /\ pc[p] = "done" /\ alone[p]
    /\ res[p].status = "Forbidden"
    /\ \E a \in db.admins : a.username = arg[p].actor /\ a.role = "secondary"
    /\ db.admins = pre[p].admins

(* ------------------------------ admins -------------------------------- *)

\* the row of admins that holds the credentials a verifyAdmin call presented
Matching(p, admins) ==
  {a \in admins : a.username = arg[p].username /\
                  a.password_hash = hashPassword(arg[p].password)}

\* C11: a verifyAdmin call with the username of an existing admin and the
\* password its row was created with returns valid = true with the role and
\* the username of the row (no other call running beside it, no store failure).
C11_ValidCredentialsAccepted ==
  \A p \in Procs :
    (op[p] = "verifyAdmin" /\ pc[p] = "done" /\ alone[p] /\ res[p].status # "StoreError"
     /\ Matching(p, pre[p].admins) # {})
    => \E a \in Matching(p, pre[p].admins) :
         /\ res[p].status = "ok" /\ res[p].valid
         /\ res[p].role = a.role /\ res[p].username = a.username

\* C12: a verifyAdmin call whose username has no row, or whose password does
\* not hash to the stored password_hash, returns valid = false with neither
\* role nor username; no result carries a role without being valid.
C12_InvalidCredentialsRejected ==
  \A p \in Procs :
    (op[p] = "verifyAdmin" /\ pc[p] = "done") =>
      /\ (res[p].role # "undefined" \/ res[p].username # "undefined") => res[p].valid
      /\ (alone[p] /\ res[p].status # "StoreError" /\ Matching(p, pre[p].admins) = {}) =>
           /\ res[p].status = "ok" /\ ~res[p].valid
           /\ res[p].role = "undefined" /\ res[p].username = "undefined"

C12_Witness ==
  \E p \in Procs :
    /\ op[p] = "verifyAdmin" /\ pc[p] = "done" /\ alone[p]
    /\ res[p].status = "ok" /\ ~res[p].valid /\ res[p].role = "undefined"
    /\ loc[p].rows = 1
    /\ \E a \in pre[p].admins :
         a.username = arg[p].username /\ a.password_hash # hashPassword(arg[p].password)

\* C13: an addSecondaryAdmin call of a super admin whose newUsername already
\* has a row throws the 'already exists' conflict error, and when no other
\* call ran beside it the table admins, the existing row included, is unchanged.
C13_ExistingUsernameConflicts ==
  \A p \in Procs :
    op[p] = "addSecondaryAdmin" =>
      /\ (alone[p] /\ loc[p].rows >= 0) =>
           loc[p].rows = Cardinality({a \in pre[p].admins : a.username = arg[p].newUsername})
      /\ loc[p].rows >= 1 =>
           /\ pc[p] = "done"
           /\ res[p].status = "Conflict"
           /\ alone[p] => db.admins = pre[p].admins
      /\ (alone[p] /\ pc[p] = "done" /\ res[p].status # "StoreError"
          /\ (\E a \in pre[p].admins : a.username = arg[p].actor /\ a.role = "super")
          /\ (\E b \in pre[p].admins : b.username = arg[p].newUsername)) =>
           res[p].status = "Conflict" /\ db.admins = pre[p].admins

C13_Witness ==
  \E p \in Procs :
    /\ op[p] = "addSecondaryAdmin" /\ pc[p] = "done" /\ alone[p]
    /\ res[p].status = "Conflict"
    /\ db.admins = pre[p].admins
    /\ \E a \in db.admins :
         /\ a.username = arg[p].newUsername /\ a.role = "secondary"
         /\ a.password_hash # hashPassword(arg[p].newPassword)

\* usernames are unique and every role is 'super' or 'secondary'
AdminsWellFormed(admins) ==
  /\ \A a, b \in admins : a.username = b.username => a = b
  /\ \A a \in admins : a.role \in {"super", "secondary"}

\* C14: in every reachable state the usernames of admins are unique and every
\* row has one role, 'super' or 'secondary'; a row that exists is never removed
\* and none of its columns, the role included, ever changes, whatever call
\* steps (addSecondaryAdmin, a repeated initDb).
C14_AdminsUniqueAndPermanent ==
  /\ AdminsWellFormed(db.admins)
  /\ [][/\ AdminsWellFormed(db'.admins)
        /\ \A a \in Committed.admins : a \in Committed'.admins]_vars

C14_Witness ==
  \E p \in Procs :
    /\ op[p] = "initDb" /\ pc[p] = "done" /\ res[p].status = "ok"
    /\ loc[p].rows = 1
    /\ \E a \in db.admins : a.username = arg[p].username /\ a.role = "secondary"
    /\ Cardinality(db.admins) = 2

\* C15: every row that appears in admins with role 'secondary' is inserted by
\* an addSecondaryAdmin call whose role check read 'super' for its actor, and
\* every row that appears with role 'super' is inserted by the bootstrap of
\* initDb: addSecondaryAdmin never creates a 'super' row.
C15_SecondaryOnlyBySuper ==
  [][\A a \in db'.admins \ db.admins :
       \/ /\ a.role = "secondary"
          /\ \E p \in Procs :
               /\ op[p] = "addSecondaryAdmin" /\ pc[p] = "a_insert" /\ pc'[p] = "done"
               /\ loc[p].role = "super"
               /\ a.username = arg[p].newUsername
       \/ /\ a.role = "super"
          /\ \E p \in Procs :
               /\ op[p] = "initDb" /\ pc[p] = "i_insert" /\ pc'[p] = "done"
               /\ a.username = arg[p].username]_vars

C15_Witness ==
  \E p \in Procs :
    /\ op[p] = "addSecondaryAdmin" /\ pc[p] = "done" /\ res[p].status = "ok"
    /\ loc[p].role = "super"
    /\ \E a \in db.admins : a.username = arg[p].newUsername /\ a.role = "secondary"
    /\ \E a \in db.admins : a.username = arg[p].actor /\ a.role = "super"

\* the rows of admins for the ADMIN_USERNAME of an initDb call
BootstrapRows(p, admins) == {a \in admins : a.username = arg[p].username}

\* C16: the bootstrap of initDb is idempotent.  A run that finds a row for
\* ADMIN_USERNAME, whatever its role, ends without an error and writes nothing;
\* a run that no other call overlaps, whose existence check was answered and
\* that the store does not fail ends without an error and leaves exactly one
\* row for ADMIN_USERNAME, so a second run after it finds that row and leaves
\* it as it is.
C16_BootstrapIdempotent ==
  \A p \in Procs :
    op[p] = "initDb" =>
      /\ (alone[p] /\ loc[p].rows >= 0) =>
           loc[p].rows = Cardinality(BootstrapRows(p, pre[p].admins))
      /\ loc[p].rows >= 1 =>
           /\ pc[p] = "done" /\ res[p].status = "ok"
           /\ alone[p] => db.admins = pre[p].admins
      /\ (alone[p] /\ pc[p] = "done" /\ loc[p].rows >= 0 /\ faults = 0) =>
           /\ res[p].status = "ok"
           /\ Cardinality(BootstrapRows(p, db.admins)) = 1
           /\ \A a \in pre[p].admins : a \in db.admins

C16_Witness ==
  \E p \in Procs :
    /\ op[p] = "initDb" /\ pc[p] = "done" /\ alone[p] /\ res[p].status = "ok"
    /\ arg[p].username = BootstrapAdmin /\ arg[p].password = BootstrapPassword
    /\ loc[p].rows = 1
    /\ db.admins = pre[p].admins
    /\ BootstrapRows(p, db.admins) =
         {[username |-> BootstrapAdmin, password_hash |-> hashPassword(BootstrapPassword),
           role |-> "super", created_at |-> 0]}

(* ---------------------------- submissions ----------------------------- *)

\* the calls of submitEntry that have returned success
Submitted == {p \in Procs : op[p] = "submitEntry" /\ pc[p] = "done" /\ res[p].status = "ok"}

\* C17: no two rows of submissions share an id, also when two submitEntry
\* calls read the same Date.now(); the id a successful submitEntry returns is
\* the id of exactly one row, which holds that call's imdb_id and acfun_url,
\* and two successful calls never return the same id.
C17_IdsUnique ==
  /\ \A r1, r2 \in db.submissions : r1.id = r2.id => r1 = r2
  /\ \A p \in Submitted :
       /\ Cardinality({r \in db.submissions : r.id = res[p].id}) = 1
       /\ \E r \in db.submissions :
            /\ r.id = res[p].id
            /\ r.imdb_id = arg[p].imdbId /\ r.acfun_url = arg[p].acfunUrl
            /\ alone[p] => r \notin pre[p].submissions
  /\ \A p, q \in Submitted : p # q => res[p].id # res[q].id

C17_Witness ==
  \E p, q \in Submitted :
    /\ p # q
    /\ loc[p].pendingCount = loc[q].pendingCount
    /\ loc[q].error = "conflict"
    /\ res[p].id # res[q].id
    /\ \E r1, r2 \in db.submissions :
         /\ r1.id = res[p].id /\ r2.id = res[q].id
         /\ r1.submitted_at = r2.submitted_at

\* C18: submitEntry retries its INSERT only after a primary-key conflict, once,
\* with the id Date.now() + an offset in 0..999; every call settles: it returns
\* the id of the row it inserted, or it throws and has added no row; an error
\* of the first INSERT that is no key conflict is thrown without a retry.
C18_OneRetryThenSettles ==
  /\ [][\A p \in Procs :
          op[p] = "submitEntry" =>
            /\ (pc[p] = "s_insert" /\ pc'[p] = "s_retry") =>
                 /\ IdTaken(db, loc[p].id)
                 /\ loc'[p].error = "conflict"
                 /\ loc'[p].id \in now .. (now + RandomRange - 1)
                 /\ db' = db
            /\ (pc[p] = "s_insert" /\ loc'[p].error = "other") =>
                 /\ pc'[p] = "done" /\ res'[p].status = "SubmissionFailed"
                 /\ db' = db
            /\ (pc[p] = "s_retry" /\ pc'[p] # "s_retry") =>
                 /\ pc'[p] = "done" /\ res'[p].status \in {"ok", "RetryFailed"}
                 /\ res'[p].status = "RetryFailed" => db' = db
            /\ (pc[p] \in {"s_insert", "s_retry"} /\ pc'[p] = "done"
                /\ res'[p].status = "ok") =>
                 /\ res'[p].id = loc[p].id
                 /\ ~IdTaken(db, loc[p].id)
                 /\ db' = InsertSubmission(db, loc[p].id, arg[p].imdbId, arg[p].acfunUrl)]_vars
  /\ \A p \in Procs : (pc[p] \in {"s_count", "s_insert", "s_retry"}) ~> (pc[p] = "done")

C18_Witness ==
  \E p \in Procs :
    /\ op[p] = "submitEntry" /\ pc[p] = "done" /\ res[p].status = "ok"
    /\ loc[p].error = "conflict"
    /\ \E r \in db.submissions :
         /\ r.id = res[p].id /\ r.id > r.submitted_at
         /\ r.imdb_id = arg[p].imdbId /\ r.acfun_url = arg[p].acfunUrl

\* the columns of a submission that no statement rewrites
SameSubmission(r1, r2) ==
  /\ r1.id = r2.id /\ r1.imdb_id = r2.imdb_id
  /\ r1.acfun_url = r2.acfun_url /\ r1.submitted_at = r2.submitted_at

\* C19: submissions is append-only.  The step on which a submitEntry call
\* returns success adds exactly one row, with status 'pending' and the id it
\* returns, and rows are added by no other step; no step deletes a row of the
\* table or changes its id, imdb_id, acfun_url or submitted_at; the status of
\* a row changes only on a statement of reviewSubmission.
C19_AppendOnly ==
  [][/\ \A r \in db.submissions :
          \E r2 \in db'.submissions : SameSubmission(r, r2)
     /\ \A p \in Procs :
          (op[p] = "submitEntry" /\ pc[p] # "done" /\ pc'[p] = "done"
           /\ res'[p].status = "ok") =>
            \E r \in db'.submissions :
              /\ r \notin db.submissions /\ ~IdTaken(db, r.id)
              /\ r.id = res'[p].id /\ r.status = "pending"
              /\ db'.submissions = db.submissions \cup {r}
     /\ \A r \in db'.submissions :
          ~IdTaken(db, r.id) =>
            \E p \in Procs :
              /\ op[p] = "submitEntry" /\ pc[p] # "done" /\ pc'[p] = "done"
              /\ res'[p].status = "ok" /\ res'[p].id = r.id
     /\ (\E r \in db.submissions, r2 \in db'.submissions :
           r.id = r2.id /\ r.status # r2.status) =>
          \E p \in Procs :
            /\ op[p] = "reviewSubmission" /\ pc[p] \in {"r_update", "r_rollback"}
            /\ pc'[p] # pc[p]]_vars

\* the calls of getPendingSubmissions that have returned
Listed ==
  {p \in Procs : op[p] = "getPendingSubmissions" /\ pc[p] = "done" /\ res[p].status = "ok"}

\* C20: a getPendingSubmissions call that no other call overlaps returns the
\* rows of submissions whose status is 'pending' at the time of the call, each
\* once and no other row, in ascending order of submitted_at.
C20_PendingListedInOrder ==
  \A p \in Listed :
    alone[p] =>
      LET rows == res[p].rows
          pending == {r \in pre[p].submissions : r.status = "pending"}
      IN  /\ {rows[i].id : i \in DOMAIN rows} = {r.id : r \in pending}
          /\ Len(rows) = Cardinality(pending)
          /\ \A i \in DOMAIN rows :
               \E r \in pending :
                 /\ rows[i].id = r.id /\ rows[i].imdb_id = r.imdb_id
                 /\ rows[i].acfun_url = r.acfun_url
                 /\ rows[i].submitted_at = r.submitted_at
          /\ \A i, j \in DOMAIN rows :
               i < j => rows[i].submitted_at <= rows[j].submitted_at

C20_Witness ==
  \E p \in Listed :
    /\ alone[p]
    /\ Len(res[p].rows) = SeedCount + 1
    /\ res[p].rows[1].id = 1 /\ res[p].rows[2].id = 2
    /\ res[p].rows[3].submitted_at > res[p].rows[2].submitted_at
    /\ \E r \in db.submissions : r.id = res[p].rows[3].id /\ r.status = "pending"

(* --------------------- connection, timer, process --------------------- *)

\* C21: a failure inside heartbeat() goes no further.  No step of a heartbeat
\* ends the process, clears a timer or touches a call; a failed UPDATE writes
\* nothing and is followed by one client.connect(), and that reconnect ends the
\* invocation whether it succeeds or not; while there is no client no heartbeat
\* statement is in flight.
C21_HeartbeatFailureIsolated ==
  /\ client = "undefined" => hb = NoBeats
  /\ [][/\ client' = "undefined" => hb' = NoBeats
        /\ BeatStep =>
             /\ proc' = proc /\ timers' = timers /\ heartbeatInterval' = heartbeatInterval
             /\ pc' = pc /\ res' = res
        /\ (HeartbeatUpdate /\ (faults' # faults \/ client # "connected")) =>
             /\ db' = db
             /\ hb'.reconnect = hb.reconnect + 1 /\ hb'.update = hb.update - 1
        /\ (HeartbeatUpdate /\ faults' = faults /\ client = "connected") =>
             /\ hb'.reconnect = hb.reconnect /\ hb'.update = hb.update - 1
        /\ HeartbeatReconnect =>
             /\ hb'.reconnect = hb.reconnect - 1 /\ hb'.update = hb.update
             /\ db' = db]_vars

C21_Witness ==
  /\ hb.last = "gave up"
  /\ hb.update = 0 /\ hb.reconnect = 0
  /\ proc = "running"
  /\ heartbeatInterval \in timers
  /\ faults > 0

\* closeDb has been called in this run of the process
CloseCalled == \E p \in Procs : op[p] = "closeDb"

\* C22: startHeartbeat starts one heartbeat at once and sets one timer: the
\* return of initDb starts exactly one heartbeat and adds exactly the timer that
\* heartbeatInterval names; every tick of the timer starts exactly one heartbeat
\* and nothing else starts one; once closeDb has cleared the timer no tick starts
\* a heartbeat; and ticks come again and again, unless from some point on the
\* timer is not set (never started, or cleared by closeDb) or the process has ended.
C22_HeartbeatRecurs ==
  /\ [][/\ \A p \in Procs :
             (op[p] = "initDb" /\ pc[p] # "done" /\ pc'[p] = "done" /\ res'[p].status = "ok")
               => heartbeatInterval' # heartbeatInterval
        /\ heartbeatInterval' # heartbeatInterval =>
             /\ hb'.update = hb.update + 1
             /\ heartbeatInterval' \notin timers
             /\ timers' = timers \cup {heartbeatInterval'}
        /\ TimerFires => hb'.update = hb.update + 1 /\ ~CloseCalled
        /\ hb'.update > hb.update =>
             /\ TimerFires \/ heartbeatInterval' # heartbeatInterval
             /\ hb'.update = hb.update + 1]_vars
  /\ \/ []<><<TimerFires>>_vars
     \/ <>[](heartbeatInterval \notin timers \/ proc # "running")

\* the heartbeat of startHeartbeat and the heartbeat of a tick are both in flight
C22_Witness ==
  /\ hb.update = 2
  /\ heartbeatInterval \in timers
  /\ proc = "running"
  /\ ~CloseCalled

\* C23: closeDb clears the timer before it releases the connection: the step in
\* which closeDb is entered clears the timer heartbeatInterval names and leaves
\* the connection as it is, and the connection is ended only by a later step of
\* a closeDb call that is awaiting client.end(). Called when initDb never ran
\* (no client, no timer) closeDb sends nothing, changes nothing and returns
\* without an error.
C23_CloseOrder ==
  /\ [](\A p \in Procs :
          (op[p] = "closeDb" /\ client = "undefined") =>
            /\ pc[p] \in {"c_return", "done"}
            /\ pc[p] = "done" => res[p].status = "ok"
            /\ heartbeatInterval = 0 /\ timers = {} /\ hb = NoBeats)
  /\ [][/\ \A p \in Procs :
             (op'[p] = "closeDb" /\ op[p] # "closeDb") =>
               /\ heartbeatInterval \notin timers'
               /\ timers' = timers \ {heartbeatInterval}
               /\ client' = client
               /\ pc'[p] = IF client = "undefined" THEN "c_return" ELSE "c_end"
        /\ (client' = "ended" /\ client # "ended") =>
             \E p \in Procs : op[p] = "closeDb" /\ pc[p] = "c_end" /\ pc'[p] = "c_return"
        /\ \A p \in Procs :
             (op[p] = "closeDb" /\ client = "undefined" /\ pc[p] = "c_return" /\ pc'[p] # pc[p]) =>
               /\ db' = db /\ faults' = faults /\ life' = life
               /\ res'[p].status = "ok"]_vars

\* closeDb awaits client.end() and the timer that was running is cleared
C23_Witness ==
  \E p \in Procs :
    /\ op[p] = "closeDb" /\ pc[p] = "c_end"
    /\ client = "connected"
    /\ heartbeatInterval # 0 /\ heartbeatInterval \notin timers

\* the closeDb calls of this run of the process
CloseCalls == {p \in Procs : op[p] = "closeDb"}

\* C24: in a shutdown of the server process closeDb runs exactly once: a process
\* that has exited has called closeDb, and no second closeDb call is made,
\* whether by the listener of the other signal or while the first call is still
\* awaiting client.end().
C24_CloseOnce ==
  /\ proc = "exited" => CloseCalls # {}
  /\ Cardinality(CloseCalls) <= 1

\* the steps of initDb that follow the connect
AfterConnect == {"i_create", "i_seed", "i_select", "i_hash", "i_insert"}

\* C25: when the first client.connect() fails initDb rethrows and the start of
\* the server is over: the call is finished with the connect error, no later
\* statement of initDb runs without the connection, and from the failure on no
\* table is created, no row of the store (heartbeat row, admin) is written and
\* no heartbeat or timer is started; the process never serves.
C25_ConnectFailureAborts ==
  /\ [](\A p \in Procs :
          /\ (op[p] = "initDb" /\ pc[p] \in AfterConnect) => client = "connected"
          /\ res[p].status = "ConnectError" =>
               /\ op[p] = "initDb" /\ pc[p] = "done"
               /\ client = "created"
               /\ db = pre[p]
               /\ heartbeatInterval = 0 /\ timers = {} /\ hb = NoBeats
               /\ proc \in {"running", "crashed"})
  /\ [][(\E p \in Procs : res[p].status = "ConnectError" \/ res'[p].status = "ConnectError")
          => /\ tables' = tables /\ db' = db
             /\ timers' = timers /\ heartbeatInterval' = heartbeatInterval /\ hb' = hb
             /\ client' = client
             /\ pc' # pc => \E p \in Procs : pc[p] = "i_connect"]_vars

\* the first connect failed and the start of the server was aborted
C25_Witness ==
  \E p \in Procs :
    /\ op[p] = "initDb" /\ res[p].status = "ConnectError"
    /\ proc = "crashed"
    /\ tables = {} /\ db = NoDb

\* the keys of the rows of system_heartbeat
HeartbeatIds(d) == {r.id : r \in d.system_heartbeat}

\* C26: initDb run again on a store that holds data is harmless: no step of an
\* initDb call changes or removes a row of submissions, trailers or admins or
\* removes a table, and of the heartbeat rows only last_heartbeat changes; an
\* initDb call that ran with nothing beside it, connected, and met no store
\* failure returns without an error, with submissions and trailers as they were
\* and every admin row that was there unchanged.
C26_InitDbIdempotent ==
  /\ [](\A p \in Procs :
          (op[p] = "initDb" /\ pc[p] = "done" /\ alone[p] /\ faults = 0
           /\ res[p].status # "ConnectError" /\ pre[p].admins # {})
          => /\ res[p].status = "ok"
             /\ db.submissions = pre[p].submissions
             /\ db.trailers = pre[p].trailers
             /\ pre[p].admins \subseteq db.admins
             /\ HeartbeatIds(pre[p]) \subseteq HeartbeatIds(db))
  /\ [][\A p \in Procs :
          (op[p] = "initDb" /\ op'[p] = "initDb" /\ (pc'[p] # pc[p] \/ loc'[p] # loc[p]))
          => /\ db'.submissions = db.submissions
             /\ db'.trailers = db.trailers
             /\ db.admins \subseteq db'.admins
             /\ HeartbeatIds(db) \subseteq HeartbeatIds(db')
             /\ tables \subseteq tables']_vars

\* initDb has run again on the store with data: only last_heartbeat differs
C26_Witness ==
  \E p \in Procs :
    /\ op[p] = "initDb" /\ pc[p] = "done" /\ res[p].status = "ok" /\ alone[p]
    /\ pre[p].submissions # {} /\ pre[p].admins # {} /\ pre[p].system_heartbeat # {}
    /\ [db EXCEPT !.system_heartbeat = {}] = [pre[p] EXCEPT !.system_heartbeat = {}]
    /\ db.system_heartbeat # pre[p].system_heartbeat

\* C27: the heartbeat record is a singleton with key 1: system_heartbeat never
\* holds more than one row and no row with another key; the seed of initDb
\* leaves exactly the row with key 1; a heartbeat() UPDATE changes nothing but
\* last_heartbeat of that row and neither adds nor removes a row; no step
\* removes the row.
C27_HeartbeatSingleton ==
  /\ [](/\ Cardinality(db.system_heartbeat) <= 1
        /\ HeartbeatIds(db) \subseteq {HeartbeatKey})
  /\ [][/\ HeartbeatIds(db) \subseteq HeartbeatIds(db')
        /\ HeartbeatUpdate =>
             /\ HeartbeatIds(db') = HeartbeatIds(db)
             /\ [db' EXCEPT !.system_heartbeat = {}] = [db EXCEPT !.system_heartbeat = {}]
             /\ db' # db => db'.system_heartbeat = {[id |-> HeartbeatKey, last_heartbeat |-> now]}
        /\ \A p \in Procs :
             (pc[p] = "i_seed" /\ pc'[p] # pc[p] /\ db' # db) =>
               db'.system_heartbeat = {[id |-> HeartbeatKey, last_heartbeat |-> now]}]_vars

\* the row of an earlier run was upserted by the seed and then updated by a heartbeat
C27_Witness ==
  /\ hb.last = "sent"
  /\ db.submissions # {}
  /\ db.system_heartbeat = {[id |-> HeartbeatKey, last_heartbeat |-> now]}

\* C28: stored digests are salted: two admin rows whose password_hash the same
\* plaintext password verifies against hold different digests, while
\* verifyPassword accepts the password a digest was made from and rejects
\* every other password.
C28_DigestsSalted ==
  /\ \A p \in Passwords : \A q \in Passwords :
       verifyPassword(q, hashPassword(p)) <=> q = p
  /\ \A a \in db.admins : \A b \in db.admins :
       (/\ a.username # b.username
        /\ \E p \in Passwords : /\ verifyPassword(p, a.password_hash)
                                /\ verifyPassword(p, b.password_hash))
       => a.password_hash # b.password_hash

(* ------------------------- documented races --------------------------- *)

\* the submitEntry calls that have read the pending count n and gone on
ReadCount(n) ==
  {p \in Procs : op[p] = "submitEntry" /\ pc[p] \in {"s_insert", "s_retry", "done"}
                 /\ loc[p].pendingCount = n}

\* C29: the count and the INSERT of submitEntry are separate steps and the
\* INSERT looks at no count: a call that read a count below 400 is never
\* refused for capacity, whatever the count has become, and every INSERT that
\* succeeds adds one pending row even to a queue that holds 400 or more; so of
\* two calls that both read 399 each one inserts unless a store failure or an
\* id conflict stops it, and the queue then holds 401 pending rows or more.
C29_CapacityRace ==
  /\ [](\A p \in Procs :
          (op[p] = "submitEntry" /\ pc[p] = "done") =>
            /\ res[p].status = "CapacityExceeded" <=> loc[p].pendingCount >= PendingLimit
            /\ res[p].status \in {"ok", "CapacityExceeded", "StoreError",
                                  "SubmissionFailed", "RetryFailed"})
  /\ [](\A p \in ReadCount(PendingLimit - 1) : \A q \in ReadCount(PendingLimit - 1) :
          (p # q /\ res[p].status = "ok" /\ res[q].status = "ok")
            => getPendingCount(db) >= PendingLimit + 1)
  /\ [][\A p \in Procs :
          (op[p] = "submitEntry" /\ pc[p] \in {"s_insert", "s_retry"}
           /\ res'[p].status = "ok")
          => getPendingCount(db') = getPendingCount(db) + 1]_vars

\* two calls that both read 399 have both inserted: 401 pending rows
C29_Witness ==
  \E p \in ReadCount(PendingLimit - 1) : \E q \in ReadCount(PendingLimit - 1) :
    /\ p # q
    /\ pc[p] = "done" /\ res[p].status = "ok"
    /\ pc[q] = "done" /\ res[q].status = "ok"
    /\ getPendingCount(db) = PendingLimit + 1

\* the reviewSubmission calls for submission id whose pre-check found it pending
PassedPreCheck(id) ==
  {p \in Procs : op[p] = "reviewSubmission" /\ arg[p].submissionId = id /\ loc[p].rows >= 1}

\* C30: the pre-check of reviewSubmission is the only place where the status is
\* looked at: a call is refused as not found only by its own pre-check, a call
\* that passed it fails only when one of its statements failed, and its UPDATE
\* sets the status of the row whatever the status has become; so two calls for
\* the same pending id that both passed the pre-check both run the UPDATE and
\* both return success.
C30_DoubleReviewRace ==
  /\ [](\A p \in Procs :
          (op[p] = "reviewSubmission" /\ pc[p] = "done") =>
            /\ res[p].status \in {"ok", "NotFound", "StoreError"}
            /\ res[p].status = "NotFound" <=> loc[p].rows = 0
            /\ (loc[p].rows >= 1 /\ loc[p].error = "") => res[p].status = "ok")
  /\ [][\A p \in Procs :
          (op[p] = "reviewSubmission" /\ pc[p] = "r_update"
           /\ pc'[p] \in {"r_upsert", "r_commit"})
          => /\ \A r \in db.submissions : r.id = arg[p].submissionId =>
                  [r EXCEPT !.status = ReviewStatus(arg[p].approve)] \in db'.submissions
             /\ \A r \in db'.submissions : r.id = arg[p].submissionId =>
                  r.status = ReviewStatus(arg[p].approve)]_vars

\* two reviews of the same submission have both passed the pre-check and both
\* returned success, with opposite decisions
C30_Witness ==
  \E id \in ReviewIds : \E p \in PassedPreCheck(id) : \E q \in PassedPreCheck(id) :
    /\ p # q
    /\ pc[p] = "done" /\ res[p].status = "ok"
    /\ pc[q] = "done" /\ res[q].status = "ok"
    /\ arg[p].approve # arg[q].approve

(* ----------------------- transactions and sessions -------------------- *)

\* the statements of the try block of a review, in the order of the code
ReviewBody(approve) ==
  <<"BEGIN", "UPDATE">> \o (IF approve THEN <<"UPSERT">> ELSE <<>>) \o <<"COMMIT">>

\* C31: a reviewSubmission call that passed the pre-check and has finished sent
\* BEGIN, the UPDATE, the upsert exactly when approve is true, and COMMIT, and
\* returned; or it sent these up to the one that failed, then ROLLBACK, and
\* threw the error of the statement that failed.
C31_TransactionProtocol ==
  \A p \in Procs :
    (op[p] = "reviewSubmission" /\ pc[p] = "done" /\ loc[p].rows >= 1) =>
      \/ /\ res[p].status = "ok"
         /\ loc[p].sent = ReviewBody(arg[p].approve)
      \/ /\ res[p].status = "StoreError"
         /\ \E k \in 1 .. Len(ReviewBody(arg[p].approve)) :
              /\ loc[p].sent = SubSeq(ReviewBody(arg[p].approve), 1, k) \o <<"ROLLBACK">>
              /\ loc[p].error = ReviewBody(arg[p].approve)[k]
              /\ loc[p].thrown = loc[p].error

\* C32: no statement of another operation runs inside the open transaction of a
\* review: the INSERT of a submitEntry call is never executed while a
\* transaction is open on the session, and the row of a submitEntry call that
\* returned success stays in submissions whatever a review rolls back.
C32_SessionIsolation ==
  [][/\ \A q \in Procs :
          (op[q] = "submitEntry" /\ pc[q] \in {"s_insert", "s_retry"}
           /\ res'[q].status = "ok") => ~inTxn
     /\ \A q \in Procs :
          (op[q] = "submitEntry" /\ pc[q] = "done" /\ res[q].status = "ok")
            => \E r \in db'.submissions : r.id = res[q].id]_vars

\* C33: in every committed state each trailers row carries the imdb_id and the
\* acfun_url of a submission whose status is 'approved'.
C33_TrailerFromApproved ==
  \A t \in Committed.trailers :
    \E r \in Committed.submissions :
      /\ r.imdb_id = t.imdb_id /\ r.acfun_url = t.acfun_url
      /\ r.status = "approved"

(* --------------------------- authentication --------------------------- *)

\* C34: a request whose Authorization header carries Basic credentials with the
\* username and the password of an admin row gets valid = true with the
\* username and the role of the row from authenticateAdmin, and /admin does
\* not answer it with 401 (no other call running beside it, no store failure).
C34_BasicCredentialsAccepted ==
  \A p \in Procs :
    (op[p] = "authenticateAdmin" /\ pc[p] = "done" /\ alone[p] /\ faults = 0
     /\ arg[p].scheme = "Basic" /\ Matching(p, pre[p].admins) # {})
    => \E a \in Matching(p, pre[p].admins) :
         /\ res[p].valid
         /\ res[p].username = a.username /\ res[p].role = a.role
         /\ AdminRouteStatus(res[p].valid) # "401"

\* C35: in the cookie variant a request is treated as admin u, and so reaches
\* reviewSubmission or addSecondaryAdmin in u's name, only if an earlier POST
\* to /admin/login with u's password was accepted by verifyAdmin.
C35_CookieFromLogin ==
  \A p \in Procs :
    (arg[p].route \in {"review", "admins"}
     /\ op[p] \in {"reviewSubmission", "addSecondaryAdmin"})
      => CookieMatch(arg[p].cookie) \in issued

\* a request with the cookie of an admin nobody has logged in as has ended
\* without reaching reviewSubmission or addSecondaryAdmin
C35_Witness ==
  \E p \in Procs :
    /\ op[p] = "authenticateAdmin" /\ pc[p] = "done"
    /\ arg[p].route \in {"review", "admins"}
    /\ \E a \in db.admins : a.username = CookieMatch(arg[p].cookie)
    /\ CookieMatch(arg[p].cookie) \notin issued
    /\ res[p].status = "ReferenceError"

(* ------------------------ timers and shutdown ------------------------- *)

\* C36: at most one heartbeat interval timer is active at any time, and when
\* closeDb has returned, with no other call in progress or started since it
\* was called, none is active, also when initDb ran more than once before
\* closeDb.
C36_SingleTimer ==
  /\ Cardinality(timers) <= 1
  /\ \A p \in Procs :
       (op[p] = "closeDb" /\ pc[p] = "done" /\ alone[p]) => timers = {}

\* closeDb has returned, initDb has not made a new client since and no initDb
\* call is in progress
CloseCompleted ==
  /\ client = "ended"
  /\ \A p \in Procs : op[p] = "initDb" => pc[p] \in {"idle", "done"}
  /\ \E p \in Procs : op[p] = "closeDb" /\ pc[p] = "done" /\ res[p].status = "ok"

\* C37: once closeDb has completed no heartbeat invocation, one that started
\* before closeDb included, issues a query or a client.connect(): no UPDATE and
\* no connect is sent and the ended connection is not opened again.
C37_QuietAfterClose ==
  [][CloseCompleted =>
       /\ hb'.update <= hb.update
       /\ hb'.reconnect <= hb.reconnect
       /\ hb' # hb => client' # "connected"]_vars

(* ------------------------ concurrent admin writes --------------------- *)

\* the rows of admins for a username
AdminRows(d, username) == {a \in d.admins : a.username = username}

\* both calls are addSecondaryAdmin calls for the same new username whose
\* existence check found no row, and both have ended
BothPassedCheck(p, q) ==
  /\ p # q
  /\ op[p] = "addSecondaryAdmin" /\ op[q] = "addSecondaryAdmin"
  /\ arg[p].newUsername = arg[q].newUsername
  /\ loc[p].rows = 0 /\ loc[q].rows = 0
  /\ pc[p] = "done" /\ pc[q] = "done"

\* C38: when two addSecondaryAdmin calls for the same new username both pass
\* the existence check, admins ends with exactly one row for the username, the
\* row carries the digest of the password of the call whose INSERT succeeded,
\* and the other call fails with an error (no store failure besides).
C38_InsertRace ==
  \A p, q \in Procs :
    (BothPassedCheck(p, q) /\ faults = 0) =>
      \E w \in {p, q} :
        /\ res[w].status = "ok"
        /\ \A l \in {p, q} \ {w} : res[l].status = "StoreError"
        /\ Cardinality(AdminRows(db, arg[w].newUsername)) = 1
        /\ \A a \in AdminRows(db, arg[w].newUsername) :
             /\ a.password_hash = hashPassword(arg[w].newPassword)
             /\ a.role = "secondary"

\* two calls with different passwords raced for one username: one won
C38_Witness ==
  \E p, q \in Procs :
    /\ BothPassedCheck(p, q) /\ faults = 0
    /\ arg[p].newPassword # arg[q].newPassword
    /\ res[p].status = "ok" /\ res[q].status = "StoreError"
    /\ \E a \in db.admins :
         a.username = arg[p].newUsername /\ a.password_hash = hashPassword(arg[p].newPassword)

\* the 'super' rows of admins for a username
SuperRows(d, username) == {a \in AdminRows(d, username) : a.role = "super"}

\* C39: a start is safe against another start with the same bootstrap
\* credentials: an initDb that read the super admin as absent and sends its
\* INSERT on a working connection, in a run without a store failure, completes
\* without error, and exactly one 'super' row for the username exists then.
C39_ConcurrentStartup ==
  [][\A p \in Procs :
       (/\ op[p] = "initDb" /\ pc[p] = "i_insert" /\ pc'[p] # "i_insert"
        /\ ClientOf(p) = "connected" /\ faults' = 0)
       => /\ res'[p].status = "ok"
          /\ Cardinality(SuperRows(db', arg[p].username)) = 1]_vars

====
